---- MODULE Spec2Model ----
(***************************************************************************)
(* State-machine model of the session store (App.tsx), the turn engine     *)
(* (components/ImageEditor.tsx), the generation gateway                    *)
(* (services/geminiService.ts) and the persistent store adapter            *)
(* (services/storageService.ts).                                           *)
(*                                                                         *)
(* Conventions.  A JavaScript string that the code slices, trims or        *)
(* compares by length is a sequence of one-character strings.  A data URL  *)
(* is a sequence of tokens in which the separators ":", ";" and "," are    *)
(* tokens of their own, so that String.split is computed, not assumed.     *)
(* A JavaScript object is a record; an optional field that is not set is   *)
(* absent from the record's DOMAIN.  Purely presentational state (sidebar, *)
(* modal viewer, mouse position, settings popover) is left out.            *)
(***************************************************************************)
EXTENDS Integers, Sequences, FiniteSets, TLC

VARIABLES
  now,                \* the value Date.now() returns
  db,                 \* IndexedDB object store 'sessions': key -> record
  dbOpen,             \* whether indexedDB.open succeeds (initDB, cached)
  faults,             \* number of store requests that have failed so far
  legacy,             \* localStorage item 'flash_editor_sessions'
  sessions,           \* App: useState sessions
  currentSessionId,   \* App: useState currentSessionId
  isInitialized,      \* App: useState isInitialized
  activeSessionIdRef, \* ImageEditor: useRef activeSessionIdRef
  isLoading,          \* ImageEditor: useState isLoading
  pendingImages,      \* ImageEditor: useState pendingImages
  retryTargetIndex,   \* ImageEditor: useState retryTargetIndex
  retryPrompt,        \* ImageEditor: useState retryPrompt
  retrySettings,      \* ImageEditor: useState retrySettings
  reads,              \* processFiles batches whose FileReaders are running
  calls,              \* editImageWithGemini calls that have not returned
  steps               \* number of operations performed so far

vars == <<now, db, dbOpen, faults, legacy, sessions, currentSessionId,
          isInitialized, activeSessionIdRef, isLoading, pendingImages,
          retryTargetIndex, retryPrompt, retrySettings, reads, calls, steps>>

appVars    == <<sessions, currentSessionId, isInitialized>>
storeVars  == <<db, dbOpen, faults, legacy>>
editorVars == <<activeSessionIdRef, isLoading, pendingImages,
                retryTargetIndex, retryPrompt, retrySettings>>

-----------------------------------------------------------------------------
(* Bounds of the model.                                                    *)

MaxTime     == 1   \* Date.now() ranges over 0..MaxTime
MaxSessions == 2   \* createNewSession is explored while fewer sessions exist
MaxSteps    == 6   \* operations (handlers, callbacks, clock ticks) in one run
MaxPending  == 2   \* images that are pending or being read at the same time
MaxFaults   == 1   \* store requests that fail in one run

\* A run is explored for MaxSteps operations; an operation that changes
\* nothing is not counted.
progVars == <<now, db, dbOpen, faults, legacy, sessions, currentSessionId,
              isInitialized, activeSessionIdRef, isLoading, pendingImages,
              retryTargetIndex, retryPrompt, retrySettings, reads, calls>>
Step == steps < MaxSteps
Count == steps' = IF progVars' = progVars THEN steps ELSE steps + 1

-----------------------------------------------------------------------------
(* JavaScript values.                                                      *)

null == [null |-> TRUE]          \* null (activeImage, retrySettings, ...)
nullId == "null"                 \* null where the other values are strings
nullIndex == -1                  \* null where the other values are indices
undefined == <<"undefined">>     \* undefined where the others are strings

Last(s) == s[Len(s)]

\* String.prototype.split(sep) for a one-token separator
RECURSIVE split(_, _)
split(s, sep) ==
  IF \A i \in 1..Len(s) : s[i] # sep
  THEN <<s>>
  ELSE LET i == CHOOSE k \in 1..Len(s) :
                  s[k] = sep /\ \A j \in 1..(k - 1) : s[j] # sep
       IN  <<SubSeq(s, 1, i - 1)>> \o split(SubSeq(s, i + 1, Len(s)), sep)

\* array[k] with JavaScript's 0-based index
At(arr, k) == IF k + 1 <= Len(arr) THEN arr[k + 1] ELSE undefined

\* String.prototype.trim
RECURSIVE trim(_)
trim(s) ==
  IF s = <<>> THEN s
  ELSE IF Head(s) = " " THEN trim(Tail(s))
  ELSE IF Last(s) = " " THEN trim(SubSeq(s, 1, Len(s) - 1))
  ELSE s

\* String.prototype.slice(0, n)
slice0(s, n) == SubSeq(s, 1, IF Len(s) < n THEN Len(s) ELSE n)

\* Date.now().toString()
IdOf(t) == ToString(t)

-----------------------------------------------------------------------------
(* Images.                                                                 *)

\* `data:${mime};base64,${payload}`
DataUrl(mime, payload) == <<"data", ":", mime, ";", "base64", ",">> \o payload

\* the ImageState built from a data URL found in the history
Decompose(url) ==
  [dataUrl    |-> url,
   mimeType   |-> At(split(At(split(url, ";"), 0), ":"), 1),
   base64Data |-> At(split(url, ","), 1)]

\* the ImageState built from a gateway result
FromResult(imageUrl) ==
  [dataUrl    |-> imageUrl,
   mimeType   |-> <<"image/png">>,
   base64Data |-> At(split(imageUrl, ","), 1)]

-----------------------------------------------------------------------------
(* Settings.                                                               *)

SettingsFields == {"temperature", "style", "aspectRatio", "isFullBody"}

DefaultSettings ==
  [temperature |-> "1.0", style |-> "None", aspectRatio |-> "1:1",
   isFullBody |-> FALSE]

\* the settings replaced by the defaults only when the object is missing
HydrateWholesale(s) ==
  [f \in DOMAIN s \cup {"settings"} |->
     IF f = "settings"
     THEN IF "settings" \in DOMAIN s THEN s.settings ELSE DefaultSettings
     ELSE s[f]]

\* { ...defaults, ...(s.settings || {}) }
Hydrate(s) ==
  LET stored == IF "settings" \in DOMAIN s THEN s.settings
                ELSE [f \in {} |-> TRUE]
      full   == [f \in SettingsFields |->
                   IF f \in DOMAIN stored THEN stored[f]
                   ELSE DefaultSettings[f]]
  IN  [f \in DOMAIN s \cup {"settings"} |->
         IF f = "settings" THEN full ELSE s[f]]

NewChat == <<"N", "e", "w", " ", "C", "h", "a", "t">>

\* the session object createNewSession and handleDeleteSession build
NewSession(t) ==
  [id |-> IdOf(t), title |-> NewChat, messages |-> <<>>,
   activeImage |-> null, lastModified |-> t, settings |-> DefaultSettings]

-----------------------------------------------------------------------------
(* Persistent store adapter (services/storageService.ts).                  *)

\* A request to an open database either succeeds or fails (request.onerror);
\* at most MaxFaults requests fail.
Outcomes == IF dbOpen /\ faults < MaxFaults THEN {TRUE, FALSE} ELSE {TRUE}

\* IndexedDB orders the records of a store by key; keys are the decimal
\* strings of small integers and compare as strings ("-1" < "-2" < "0" < "1")
KeyRank(k) ==
  LET n == CHOOSE m \in -9..9 : IdOf(m) = k
  IN  IF n < 0 THEN -10 - n ELSE n

RECURSIVE InKeyOrder(_)
InKeyOrder(keys) ==
  IF keys = {} THEN <<>>
  ELSE LET k == CHOOSE a \in keys : \A b \in keys : KeyRank(a) <= KeyRank(b)
       IN  <<k>> \o InKeyOrder(keys \ {k})

\* store.getAll()
getAll(store) ==
  LET keys == InKeyOrder(DOMAIN store)
  IN  [i \in 1..Len(keys) |-> store[keys[i]]]

\* store.put(session): upsert by the key path 'id'
put(store, s) ==
  [k \in DOMAIN store \cup {s.id} |-> IF k = s.id THEN s ELSE store[k]]

\* store.delete(id)
delete(store, id) == [k \in DOMAIN store \ {id} |-> store[k]]

RECURSIVE putAll(_, _)
putAll(store, list) ==
  IF list = <<>> THEN store ELSE putAll(put(store, Head(list)), Tail(list))

\* saveSessionToDB: the store after the call; ok is the request's outcome.
\* When the database cannot be opened the error is caught and logged.
saveSessionToDB(store, s, ok) == IF dbOpen /\ ok THEN put(store, s) ELSE store

\* deleteSessionFromDB
deleteSessionFromDB(store, id, ok) ==
  IF dbOpen /\ ok THEN delete(store, id) ELSE store

\* The promise of saveSessionToDB / deleteSessionFromDB / getAllSessionsFromDB
\* rejects when the database is open and the request fails: the inner promise
\* is returned, not awaited, inside the try block.
Rejects(ok) == dbOpen /\ ~ok

\* the number of rejected requests among the outcomes oks
Failed(oks) == Cardinality({i \in 1..Len(oks) : Rejects(oks[i])})

-----------------------------------------------------------------------------
(* What earlier runs of the application left behind.                       *)

Hi == <<"h", "i">>

ImgX == DataUrl("image/jpeg", <<"X">>)   \* an uploaded photo
ImgY == DataUrl("image/png", <<"Y">>)    \* an image the model returned

\* a session written by the current version: one turn, answered by an image
StoredModern ==
  [id |-> IdOf(-5), title |-> Hi,
   messages |->
     << [id |-> IdOf(-5), role |-> "user", text |-> Hi, images |-> <<ImgX>>,
         timestamp |-> -5],
        [id |-> IdOf(-4), role |-> "model", images |-> <<ImgY>>,
         timestamp |-> -4] >>,
   activeImage |-> FromResult(ImgY), lastModified |-> -4,
   settings |-> [DefaultSettings EXCEPT !.style = "Anime"]]

\* a session written by an older version: messages carry the single `image`
\* field, the settings object is partial
StoredLegacy ==
  [id |-> IdOf(-9), title |-> Hi,
   messages |->
     << [id |-> IdOf(-9), role |-> "user", text |-> Hi, image |-> ImgX,
         timestamp |-> -9],
        [id |-> IdOf(-8), role |-> "model", image |-> ImgY,
         timestamp |-> -8] >>,
   activeImage |-> null, lastModified |-> -8,
   settings |-> [style |-> "Anime"]]

Yo == <<"y", "o">>

\* a session whose first turn was still waiting for its answer when the
\* application was closed: the update made before the call is what was stored
StoredPending ==
  [id |-> IdOf(-3), title |-> Yo,
   messages |->
     << [id |-> IdOf(-3), role |-> "user", text |-> Yo, timestamp |-> -3] >>,
   activeImage |-> null, lastModified |-> -3, settings |-> DefaultSettings]

StoreOf(list) == putAll([k \in {} |-> null], list)

\* the contents of the object store when the application starts
StoredSets ==
  {StoreOf(<<>>), StoreOf(<<StoredModern, StoredLegacy>>),
   StoreOf(<<StoredPending>>)}

\* the localStorage item: absent, not JSON, JSON that is no non-empty array,
\* or a non-empty array of sessions
LegacyBlobs ==
  {[kind |-> "absent"], [kind |-> "unparsable"],
   [kind |-> "list", list |-> <<StoredLegacy>>]}

\* The combinations a start is explored from: records are in the object
\* store only when it can be opened, and the legacy item is gone once the
\* store is used; an item that is not JSON is tried with a store that opens.
Startable(store, open, blob) ==
  /\ DOMAIN store # {} => (open /\ blob.kind = "absent")
  /\ blob.kind = "unparsable" => open

-----------------------------------------------------------------------------
(* App (App.tsx).                                                          *)

Ids(ss) == {ss[i].id : i \in 1..Len(ss)}

\* sessions.find(s => s.id === id); only used where a session has the id
Find(ss, id) == ss[CHOOSE i \in 1..Len(ss) :
                      ss[i].id = id /\ \A j \in 1..(i - 1) : ss[j].id # id]

\* isInitialized && currentSession: the ImageEditor is rendered
Mounted(ss, cur, init) == init /\ cur \in Ids(ss)

\* sessions.filter(s => s.id !== id)
RECURSIVE Without(_, _)
Without(ss, id) ==
  IF ss = <<>> THEN <<>>
  ELSE IF Head(ss).id = id THEN Without(Tail(ss), id)
  ELSE <<Head(ss)>> \o Without(Tail(ss), id)

\* prev.map(s => s.id === updated.id ? updated : s)
Replaced(ss, updated) ==
  [i \in 1..Len(ss) |-> IF ss[i].id = updated.id THEN updated ELSE ss[i]]

\* the loaded sessions in the order the store returned them
KeepLoadedOrder(ss) == ss

\* Array.prototype.sort((a, b) => b.lastModified - a.lastModified): stable
RECURSIVE SortNewestFirst(_)
SortNewestFirst(ss) ==
  IF ss = <<>> THEN <<>>
  ELSE LET i == CHOOSE k \in 1..Len(ss) :
                  /\ \A j \in 1..Len(ss) :
                       ss[j].lastModified <= ss[k].lastModified
                  /\ \A j \in 1..(k - 1) :
                       ss[j].lastModified < ss[k].lastModified
       IN  <<ss[i]>> \o
           SortNewestFirst(SubSeq(ss, 1, i - 1) \o SubSeq(ss, i + 1, Len(ss)))

\* the session-switch effect leaving the loading flag as it is
EditorEffectKeepsLoading(ss, cur, init) ==
  IF /\ Mounted(sessions, currentSessionId, isInitialized)
     /\ Mounted(ss, cur, init)
     /\ cur = activeSessionIdRef
  THEN UNCHANGED editorVars
  ELSE /\ activeSessionIdRef' = IF Mounted(ss, cur, init) THEN cur ELSE nullId
       /\ isLoading' = isLoading
       /\ pendingImages' = <<>>
       /\ retryTargetIndex' = nullIndex
       /\ retryPrompt' = <<>>
       /\ retrySettings' = null

\* The ImageEditor after App has rendered the session list ss with the
\* selection cur: the effect on [session.id] resets the local state when the
\* displayed session's id changed; a newly mounted editor starts from its
\* initial state.
EditorEffect(ss, cur, init) ==
  IF /\ Mounted(sessions, currentSessionId, isInitialized)
     /\ Mounted(ss, cur, init)
     /\ cur = activeSessionIdRef
  THEN UNCHANGED editorVars
  ELSE /\ activeSessionIdRef' = IF Mounted(ss, cur, init) THEN cur ELSE nullId
       /\ isLoading' = FALSE
       /\ pendingImages' = <<>>
       /\ retryTargetIndex' = nullIndex
       /\ retryPrompt' = <<>>
       /\ retrySettings' = null

\* The retry dialog covers the whole window while it is shown.
DialogOpen == retryTargetIndex # nullIndex /\ retrySettings # null

\* clearLocalStorageAndMigrate without localStorage.removeItem
MigrateLeavesBlob(okPut) ==
  IF legacy.kind = "list" /\ dbOpen /\ okPut
  THEN <<legacy.list, putAll(db, legacy.list), legacy>>
  ELSE <<(<<>>), db, legacy>>

\* clearLocalStorageAndMigrate: <<result, store, blob>>; result <<>> is null
Migrate(okPut) ==
  IF legacy.kind = "list" /\ dbOpen /\ okPut
  THEN <<legacy.list, putAll(db, legacy.list), [kind |-> "absent"]>>
  ELSE <<(<<>>), db, legacy>>

\* initializeApp, run once by the mount effect of App.  okGet, okPut, okSave
\* and okSave2 are the outcomes of the getAll request, of the migration's
\* writes (one transaction), of the write of the first createNewSession and
\* of the write of the second one; a request that is not issued has no
\* outcome to choose.  t2 is Date.now() in the second createNewSession.
InitializeApp ==
  /\ Step
  /\ ~isInitialized
  /\ \E okGet \in Outcomes, okPut \in Outcomes, okSave \in Outcomes,
        okSave2 \in Outcomes, t2 \in {now, now + 1} :
       LET fromDB   == IF dbOpen /\ okGet THEN getAll(db) ELSE <<>>
           migrates == ~Rejects(okGet) /\ fromDB = <<>>
           migrated == IF migrates THEN Migrate(okPut)
                       ELSE <<(<<>>), db, legacy>>
           loaded   == IF fromDB # <<>> THEN fromDB ELSE migrated[1]
           hydrated == SortNewestFirst([i \in 1..Len(loaded) |->
                                           Hydrate(loaded[i])])
           creates  == loaded = <<>>
           \* the catch block runs createNewSession after the one in the try
           \* block has thrown
           again    == creates /\ ~Rejects(okGet) /\ Rejects(okSave)
           first    == NewSession(now)
           second   == NewSession(t2)
           store1   == IF creates
                       THEN saveSessionToDB(migrated[2], first, okSave)
                       ELSE migrated[2]
           list     == IF ~creates THEN hydrated
                       ELSE IF again THEN <<second, first>> \o sessions
                       ELSE <<first>> \o sessions
       IN  /\ okPut \/ (migrates /\ legacy.kind = "list" /\ dbOpen)
           /\ okSave \/ creates
           /\ okSave2 \/ again
           /\ t2 = now \/ (again /\ t2 <= MaxTime)
           /\ faults + Failed(<<okGet, okPut, okSave, okSave2>>) <= MaxFaults
           /\ faults' = faults + Failed(<<okGet, okPut, okSave, okSave2>>)
           /\ now' = t2
           /\ sessions' = list
           /\ currentSessionId' = list[1].id
           /\ db' = IF again THEN saveSessionToDB(store1, second, okSave2)
                    ELSE store1
           /\ legacy' = migrated[3]
           /\ EditorEffect(list, list[1].id, TRUE)
  /\ isInitialized' = TRUE
  /\ UNCHANGED <<dbOpen, reads, calls>>
  /\ Count

\* createNewSession, from the sidebar's NEW SESSION button
CreateNewSession ==
  /\ Step
  /\ isInitialized /\ ~DialogOpen
  /\ Len(sessions) < MaxSessions
  /\ \E ok \in Outcomes :
       LET newSession == NewSession(now)
           list       == <<newSession>> \o sessions
       IN  /\ sessions' = list
           /\ currentSessionId' = newSession.id
           /\ db' = saveSessionToDB(db, newSession, ok)
           /\ faults' = faults + Failed(<<ok>>)
           /\ EditorEffect(list, newSession.id, isInitialized)
  /\ UNCHANGED <<now, dbOpen, legacy, isInitialized, reads, calls>>
  /\ Count

\* handleDeleteSession without the replacement of the last session
AfterDeleteNoReplacement(ss, cur, sessionId, t) ==
  LET updatedSessions == Without(ss, sessionId)
  IN  [sessions |-> updatedSessions,
       currentSessionId |-> IF cur # sessionId THEN cur
                            ELSE IF Len(updatedSessions) = 0 THEN nullId
                            ELSE updatedSessions[1].id]

\* handleDeleteSession selecting the most recently modified remaining session
AfterDeleteSelectsNewest(ss, cur, sessionId, t) ==
  LET updatedSessions == Without(ss, sessionId)
      newest == CHOOSE i \in 1..Len(updatedSessions) :
                  \A j \in 1..Len(updatedSessions) :
                     updatedSessions[j].lastModified
                       <= updatedSessions[i].lastModified
  IN  IF Len(updatedSessions) = 0
      THEN [sessions |-> <<NewSession(t)>>,
            currentSessionId |-> NewSession(t).id]
      ELSE [sessions |-> updatedSessions,
            currentSessionId |-> IF cur = sessionId
                                 THEN updatedSessions[newest].id ELSE cur]

\* handleDeleteSession leaving the selection as it is
AfterDeleteKeepsSelection(ss, cur, sessionId, t) ==
  LET updatedSessions == Without(ss, sessionId)
  IN  IF Len(updatedSessions) = 0
      THEN [sessions |-> <<NewSession(t)>>,
            currentSessionId |-> NewSession(t).id]
      ELSE [sessions |-> updatedSessions,
            currentSessionId |-> cur]

\* what handleDeleteSession(sessionId) passes to setSessions and
\* setCurrentSessionId at the time t
AfterDelete(ss, cur, sessionId, t) ==
  LET updatedSessions == Without(ss, sessionId)
  IN  IF Len(updatedSessions) = 0
      THEN [sessions |-> <<NewSession(t)>>,
            currentSessionId |-> NewSession(t).id]
      ELSE [sessions |-> updatedSessions,
            currentSessionId |-> IF cur = sessionId
                                 THEN updatedSessions[1].id ELSE cur]

\* handleDeleteSession(sessionId), from the delete button of a listed session
HandleDeleteSession(sessionId) ==
  /\ Step
  /\ isInitialized /\ ~DialogOpen
  /\ \E okSave \in Outcomes, okDel \in Outcomes :
       LET replaced == Len(Without(sessions, sessionId)) = 0
           after    == AfterDelete(sessions, currentSessionId, sessionId, now)
           saved    == IF replaced
                       THEN saveSessionToDB(db, NewSession(now), okSave)
                       ELSE db
       IN  /\ okSave \/ replaced
           /\ faults + Failed(<<okSave, okDel>>) <= MaxFaults
           /\ faults' = faults + Failed(<<okSave, okDel>>)
           /\ sessions' = after.sessions
           /\ currentSessionId' = after.currentSessionId
           /\ db' = deleteSessionFromDB(saved, sessionId, okDel)
           /\ EditorEffect(after.sessions, after.currentSessionId,
                           isInitialized)
  /\ UNCHANGED <<now, dbOpen, legacy, isInitialized, reads, calls>>
  /\ Count

\* handleSelectSession(id), from the sidebar's list
HandleSelectSession(id) ==
  /\ Step
  /\ isInitialized /\ ~DialogOpen
  /\ currentSessionId' = id
  /\ EditorEffect(sessions, id, isInitialized)
  /\ UNCHANGED <<now, db, dbOpen, faults, legacy, sessions, isInitialized,
                 reads, calls>>
  /\ Count

\* the clock advances
Tick ==
  /\ Step
  /\ now < MaxTime
  /\ now' = now + 1
  /\ UNCHANGED <<storeVars, appVars, editorVars, reads, calls>>
  /\ Count

-----------------------------------------------------------------------------
(* String literals of the turn engine.                                     *)

\* "Edit this image"
EditThisImage ==
  <<"E", "d", "i", "t", " ", "t", "h", "i", "s", " ", "i", "m", "a",
     "g", "e">>

\* "Image Edit Session"
ImageEditSession ==
  <<"I", "m", "a", "g", "e", " ", "E", "d", "i", "t", " ", "S", "e",
     "s", "s", "i", "o", "n">>

\* "I processed the request but didn't generate a new image."
NoImageText ==
  <<"I", " ", "p", "r", "o", "c", "e", "s", "s", "e", "d", " ", "t",
     "h", "e", " ", "r", "e", "q", "u", "e", "s", "t", " ", "b", "u",
     "t", " ", "d", "i", "d", "n", "'", "t", " ", "g", "e", "n", "e",
     "r", "a", "t", "e", " ", "a", " ", "n", "e", "w", " ", "i", "m",
     "a", "g", "e", ".">>

\* "Sorry, something went wrong with the image generation."
SendFailedText ==
  <<"S", "o", "r", "r", "y", ",", " ", "s", "o", "m", "e", "t", "h",
     "i", "n", "g", " ", "w", "e", "n", "t", " ", "w", "r", "o", "n",
     "g", " ", "w", "i", "t", "h", " ", "t", "h", "e", " ", "i", "m",
     "a", "g", "e", " ", "g", "e", "n", "e", "r", "a", "t", "i", "o",
     "n", ".">>

\* "Sorry, something went wrong."
RetryFailedText ==
  <<"S", "o", "r", "r", "y", ",", " ", "s", "o", "m", "e", "t", "h",
     "i", "n", "g", " ", "w", "e", "n", "t", " ", "w", "r", "o", "n",
     "g", ".">>

\* "Error: "
ErrorPrefix ==
  <<"E", "r", "r", "o", "r", ":", " ">>

\* "..."
Ellipsis ==
  <<".", ".", ".">>

TitleLimit == 30   \* userText.slice(0, 30), userText.length > 30

-----------------------------------------------------------------------------
(* What the user and the environment can supply.                           *)

\* what the composer's textarea can hold when Enter or the send button is
\* pressed
InputTexts == {<<>>, <<" ">>, Hi}

\* feedback typed into the retry dialog
RetryTexts == {<<>>, <<"x">>}

\* files offered by the file picker or the clipboard
FileD == [type |-> "image/png", payload |-> <<"D">>]
FileE == [type |-> "image/jpeg", payload |-> <<"E">>]
FileBatches == {<<FileE, FileD>>}

\* changes made with the settings controls
SettingsChanges == {[isFullBody |-> TRUE]}

\* response.candidates?.[0]?.content?.parts of the model's answers;
\* <<>> stands for a response without candidates, content or parts
ReplyText == <<"o", "k">>
Responses ==
  { <<>>,
    << [inlineData |-> [data |-> <<"R">>]] >>,
    << [text |-> ReplyText], [inlineData |-> [data |-> <<"R">>]] >>,
    << [text |-> ReplyText] >> }

\* what ai.models.generateContent throws: an Error, or something else
Thrown == {[isError |-> TRUE, message |-> <<"4", "2", "9">>],
           [isError |-> FALSE]}

-----------------------------------------------------------------------------
(* Generation gateway (services/geminiService.ts).                         *)

\* the loop over the response's parts: <<imageUrl, text>>, null is <<>>...
RECURSIVE ParseParts(_, _)
ParseParts(parts, acc) ==
  IF parts = <<>> THEN acc
  ELSE LET part == Head(parts)
       IN  IF "inlineData" \in DOMAIN part
           THEN ParseParts(Tail(parts),
                  [acc EXCEPT !.imageUrl =
                     <<DataUrl("image/png", part.inlineData.data)>>])
           ELSE IF "text" \in DOMAIN part /\ part.text # <<>>
           THEN ParseParts(Tail(parts), [acc EXCEPT !.text = <<part.text>>])
           ELSE ParseParts(Tail(parts), acc)

\* the GenerationResult; a field that is null is the empty sequence, a field
\* that is set is the one-element sequence of its string
GenerationResult(response) ==
  ParseParts(response, [imageUrl |-> <<>>, text |-> <<>>])

-----------------------------------------------------------------------------
(* ImageEditor (components/ImageEditor.tsx).                               *)

\* the session prop
session == Find(sessions, currentSessionId)

EditorMounted == Mounted(sessions, currentSessionId, isInitialized)

\* { ...a, ...b }
Merge(a, b) ==
  [f \in DOMAIN a \cup DOMAIN b |-> IF f \in DOMAIN b THEN b[f] ELSE a[f]]

\* msg.images && msg.images.length > 0
HasImages(m) == "images" \in DOMAIN m /\ Len(m.images) > 0

\* msg.image
HasImage(m) == "image" \in DOMAIN m /\ m.image # <<>>

\* the fallback search without the legacy single image field
RECURSIVE ScanBackImagesOnly(_, _)
ScanBackImagesOnly(msgs, i) ==
  IF i < 1 THEN <<>>
  ELSE IF HasImages(msgs[i]) THEN <<Decompose(Last(msgs[i].images))>>
  ELSE ScanBackImagesOnly(msgs, i - 1)

\* the fallback search of handleSendMessage and confirmRetry: from the
\* message at position i (1-based) towards the oldest; the result is the
\* array of at most one ImageState
RECURSIVE ScanBack(_, _)
ScanBack(msgs, i) ==
  IF i < 1 THEN <<>>
  ELSE IF HasImages(msgs[i]) THEN <<Decompose(Last(msgs[i].images))>>
  ELSE IF HasImage(msgs[i]) THEN <<Decompose(msgs[i].image)>>
  ELSE ScanBack(msgs, i - 1)

\* handleUpdateSession without the write to the store
UpdateSessionInMemory(updated, ok) ==
  /\ sessions' = Replaced(sessions, updated)
  /\ db' = db
  /\ faults' = faults

\* onUpdateSession(updated) = handleUpdateSession: the list and the store
UpdateSession(updated, ok) ==
  /\ sessions' = Replaced(sessions, updated)
  /\ db' = saveSessionToDB(db, updated, ok)
  /\ faults' = faults + Failed(<<ok>>)

\* images of the files a batch holds
ImageFiles(files) == {i \in 1..Len(files) : files[i].type \in
                        {"image/png", "image/jpeg"}}

\* images that are pending or being read
Attached ==
  LET RECURSIVE Sum(_)
      Sum(bs) == IF bs = <<>> THEN 0
                 ELSE Cardinality(ImageFiles(Head(bs).files)) + Sum(Tail(bs))
  IN  Len(pendingImages) + Sum(reads)

\* processFiles(files): one FileReader per image file is started, the files
\* that are no images are counted at once
StartReads(files) ==
  /\ Step
  /\ EditorMounted
  /\ reads' = Append(reads, [files |-> files, newImages |-> <<>>,
                             processedCount |-> Len(files) -
                                Cardinality(ImageFiles(files)),
                             loaded |-> {}])
  /\ UNCHANGED <<now, storeVars, appVars, editorVars, calls>>
  /\ Count

\* processFiles(files), from the file input or a paste, while at most
\* MaxPending images are pending or being read
ProcessFiles(files) ==
  /\ Attached + Cardinality(ImageFiles(files)) <= MaxPending
  /\ StartReads(files)

RemoveAt(s, i) == SubSeq(s, 1, i - 1) \o SubSeq(s, i + 1, Len(s))

\* reader.onload putting its image into the pending list at once
ReaderOnLoadShowsEach(b, i) ==
  /\ Step
  /\ b \in 1..Len(reads)
  /\ i \in ImageFiles(reads[b].files) \ reads[b].loaded
  /\ LET batch     == reads[b]
         result    == DataUrl(batch.files[i].type, batch.files[i].payload)
         image     == [dataUrl    |-> result,
                       mimeType   |-> <<batch.files[i].type>>,
                       base64Data |-> At(split(result, ","), 1)]
         processedCount == batch.processedCount + 1
     IN  /\ pendingImages' = Append(pendingImages, image)
         /\ reads' = IF processedCount = Len(batch.files)
                     THEN RemoveAt(reads, b)
                     ELSE [reads EXCEPT ![b] =
                             [batch EXCEPT !.processedCount = processedCount,
                                           !.loaded = @ \cup {i}]]
  /\ UNCHANGED <<now, storeVars, appVars, activeSessionIdRef, isLoading,
                 retryTargetIndex, retryPrompt, retrySettings, calls>>
  /\ Count

\* reader.onload of file i of batch b
ReaderOnLoad(b, i) ==
  /\ Step
  /\ b \in 1..Len(reads)
  /\ i \in ImageFiles(reads[b].files) \ reads[b].loaded
  /\ LET batch     == reads[b]
         result    == DataUrl(batch.files[i].type, batch.files[i].payload)
         newImages == Append(batch.newImages,
                        [dataUrl    |-> result,
                         mimeType   |-> <<batch.files[i].type>>,
                         base64Data |-> At(split(result, ","), 1)])
         processedCount == batch.processedCount + 1
     IN  IF processedCount = Len(batch.files)
         THEN /\ pendingImages' = pendingImages \o newImages
              /\ reads' = RemoveAt(reads, b)
         ELSE /\ pendingImages' = pendingImages
              /\ reads' = [reads EXCEPT ![b] =
                             [batch EXCEPT !.newImages = newImages,
                                           !.processedCount = processedCount,
                                           !.loaded = @ \cup {i}]]
  /\ UNCHANGED <<now, storeVars, appVars, activeSessionIdRef, isLoading,
                 retryTargetIndex, retryPrompt, retrySettings, calls>>
  /\ Count

\* handleRemovePendingImage(index)
HandleRemovePendingImage(index) ==
  /\ Step
  /\ EditorMounted /\ ~DialogOpen
  /\ index \in 1..Len(pendingImages)
  /\ pendingImages' = RemoveAt(pendingImages, index)
  /\ UNCHANGED <<now, storeVars, appVars, activeSessionIdRef, isLoading,
                 retryTargetIndex, retryPrompt, retrySettings, reads, calls>>
  /\ Count

\* updateSettings(newSettings), from the settings popover
UpdateSettings(newSettings) ==
  /\ Step
  /\ EditorMounted /\ ~DialogOpen
  /\ \E ok \in Outcomes :
       UpdateSession([session EXCEPT !.settings = Merge(@, newSettings)], ok)
  /\ UNCHANGED <<now, dbOpen, legacy, currentSessionId, isInitialized,
                 editorVars, reads, calls>>
  /\ Count

\* the image context with the active image taking precedence over the
\* pending images
ResolveContextActiveFirst(messages, activeImage, currentPendingImages) ==
  IF activeImage # null
  THEN <<(<<activeImage>>), activeImage>>
  ELSE IF Len(currentPendingImages) > 0
  THEN <<currentPendingImages, Last(currentPendingImages)>>
  ELSE LET found == ScanBack(messages, Len(messages))
       IN  IF found = <<>> THEN <<found, activeImage>>
           ELSE <<found, found[1]>>

\* the image context with the history taking precedence over the active
\* image
ResolveContextHistoryFirst(messages, activeImage, currentPendingImages) ==
  LET found == ScanBack(messages, Len(messages))
  IN  IF Len(currentPendingImages) > 0
      THEN <<currentPendingImages, Last(currentPendingImages)>>
      ELSE IF found # <<>> THEN <<found, found[1]>>
      ELSE IF activeImage # null THEN <<(<<activeImage>>), activeImage>>
      ELSE <<found, activeImage>>

\* the image context of a send: <<imagesToSend, nextActiveImage>>
ResolveContext(messages, activeImage, currentPendingImages) ==
  IF Len(currentPendingImages) > 0
  THEN <<currentPendingImages, Last(currentPendingImages)>>
  ELSE IF activeImage # null
  THEN <<(<<activeImage>>), activeImage>>
  ELSE LET found == ScanBack(messages, Len(messages))
       IN  IF found = <<>> THEN <<found, activeImage>>
           ELSE <<found, found[1]>>

\* the title with the ellipsis added from 30 characters on
NewTitleCutsAtLimit(title, messages, userText, currentPendingImages) ==
  IF Len(messages) <= 1 /\ userText # <<>>
  THEN slice0(userText, TitleLimit) \o
       (IF Len(userText) >= TitleLimit THEN Ellipsis ELSE <<>>)
  ELSE IF Len(messages) <= 1 /\ Len(currentPendingImages) > 0
  THEN ImageEditSession
  ELSE title

\* the title after a send
NewTitle(title, messages, userText, currentPendingImages) ==
  IF Len(messages) <= 1 /\ userText # <<>>
  THEN slice0(userText, TitleLimit) \o
       (IF Len(userText) > TitleLimit THEN Ellipsis ELSE <<>>)
  ELSE IF Len(messages) <= 1 /\ Len(currentPendingImages) > 0
  THEN ImageEditSession
  ELSE title

\* newUserMessage
UserMessage(userText, currentPendingImages, t) ==
  IF Len(currentPendingImages) > 0
  THEN [id |-> IdOf(t), role |-> "user", text |-> userText,
        images |-> [i \in 1..Len(currentPendingImages) |->
                      currentPendingImages[i].dataUrl],
        timestamp |-> t]
  ELSE [id |-> IdOf(t), role |-> "user", text |-> userText, timestamp |-> t]

\* the send refused only while a call is outstanding
SendRejectedOnlyWhileLoading(inputValue) == isLoading

\* the send without regard to the loading flag
SendRejectedWhenEmpty(inputValue) ==
  trim(inputValue) = <<>> /\ Len(pendingImages) = 0

\* the validation of handleSendMessage: the handler returns at once
SendRejected(inputValue) ==
  (trim(inputValue) = <<>> /\ Len(pendingImages) = 0) \/ isLoading

\* handleSendMessage up to the call of editImageWithGemini (Enter or the send
\* button), inputValue being the text in the composer; the call that is
\* started keeps the values the closure captured
HandleSendMessage(inputValue) ==
  /\ Step
  /\ EditorMounted /\ ~DialogOpen
  /\ IF SendRejected(inputValue)
     THEN UNCHANGED <<now, storeVars, appVars, editorVars, reads, calls>>
     ELSE LET userText        == trim(inputValue)
              updatedMessages == Append(session.messages,
                                   UserMessage(userText, pendingImages, now))
              newTitle        == NewTitle(session.title, session.messages,
                                          userText, pendingImages)
              context         == ResolveContext(session.messages,
                                   session.activeImage, pendingImages)
          IN  /\ \E ok \in Outcomes :
                   UpdateSession([session EXCEPT
                                    !.title = newTitle,
                                    !.messages = updatedMessages,
                                    !.activeImage = context[2],
                                    !.lastModified = now], ok)
              /\ pendingImages' = <<>>
              /\ isLoading' = TRUE
              /\ calls' = Append(calls,
                   [kind |-> "send",
                    currentSessionId |-> session.id,
                    session |-> session,
                    title |-> newTitle,
                    messages |-> updatedMessages,
                    inputs |-> context[1],
                    prompt |-> IF userText # <<>> THEN userText
                               ELSE EditThisImage,
                    settings |-> session.settings,
                    failedText |-> SendFailedText])
              /\ UNCHANGED <<now, dbOpen, legacy, currentSessionId,
                             isInitialized, activeSessionIdRef,
                             retryTargetIndex, retryPrompt, retrySettings,
                             reads>>
  /\ Count

\* the retry button shows on the last message when it is a model message
\* that is rendered
Rendered(m) ==
  \/ "text" \in DOMAIN m /\ m.text # <<>>
  \/ HasImages(m)
  \/ ("images" \notin DOMAIN m /\ HasImage(m))
  \/ ("isError" \in DOMAIN m /\ m.isError)

\* the indices (from 0) of the messages that show an enabled RETRY button
RetryButtons ==
  IF EditorMounted /\ ~isLoading
  THEN {index \in 0..(Len(session.messages) - 1) :
          /\ Rendered(session.messages[index + 1])
          /\ session.messages[index + 1].role # "user"
          /\ index = Len(session.messages) - 1}
  ELSE {}

\* initiateRetry(msgIndex); msgIndex counts from 0
InitiateRetry(msgIndex) ==
  /\ Step
  /\ EditorMounted /\ ~DialogOpen
  /\ msgIndex \in RetryButtons
  /\ retryTargetIndex' = msgIndex
  /\ retrySettings' = session.settings
  /\ retryPrompt' = <<>>
  /\ UNCHANGED <<now, storeVars, appVars, activeSessionIdRef, isLoading,
                 pendingImages, reads, calls>>
  /\ Count

\* the feedback textarea of the retry dialog
SetRetryPrompt(text) ==
  /\ Step
  /\ EditorMounted /\ DialogOpen
  /\ retryPrompt' = text
  /\ UNCHANGED <<now, storeVars, appVars, activeSessionIdRef, isLoading,
                 pendingImages, retryTargetIndex, retrySettings, reads, calls>>
  /\ Count

\* the settings controls of the retry dialog
SetRetrySettings(newS) ==
  /\ Step
  /\ EditorMounted /\ DialogOpen
  /\ retrySettings' = Merge(retrySettings, newS)
  /\ UNCHANGED <<now, storeVars, appVars, activeSessionIdRef, isLoading,
                 pendingImages, retryTargetIndex, retryPrompt, reads, calls>>
  /\ Count

\* Cancel or the close button of the retry dialog
CancelRetry ==
  /\ Step
  /\ EditorMounted /\ DialogOpen
  /\ retryTargetIndex' = nullIndex
  /\ UNCHANGED <<now, storeVars, appVars, activeSessionIdRef, isLoading,
                 pendingImages, retryPrompt, retrySettings, reads, calls>>
  /\ Count

\* the input images of a retry of the message at msgIndex (from 0)
RetryInputs(messages, msgIndex) ==
  LET userMsg == messages[msgIndex]
  IN  IF HasImages(userMsg)
      THEN [i \in 1..Len(userMsg.images) |-> Decompose(userMsg.images[i])]
      ELSE ScanBack(messages, msgIndex - 1)

\* fullPrompt
RetryFullPrompt(userMsg, feedback) ==
  LET basePrompt       == IF "text" \in DOMAIN userMsg THEN userMsg.text
                          ELSE <<>>
      additionalPrompt == IF trim(feedback) # <<>>
                          THEN <<" ">> \o trim(feedback) ELSE <<>>
  IN  IF basePrompt \o additionalPrompt # <<>>
      THEN basePrompt \o additionalPrompt
      ELSE EditThisImage

\* the rewound session with the settings of the retry dialog stored in it
RewoundWithRetrySettings(s, newMessages, revertedActiveImage) ==
  [s EXCEPT !.messages = newMessages,
            !.activeImage = revertedActiveImage,
            !.settings = retrySettings]

\* the session confirmRetry passes to onUpdateSession before the call:
\* { ...session, messages: newMessages, activeImage: revertedActiveImage }
Rewound(s, newMessages, revertedActiveImage) ==
  [s EXCEPT !.messages = newMessages,
            !.activeImage = revertedActiveImage]

\* confirmRetry returning with the loading flag set
RetryAbortedButLoading ==
  /\ isLoading' = TRUE
  /\ UNCHANGED <<now, storeVars, appVars, activeSessionIdRef,
                 pendingImages, retryPrompt, retrySettings, reads, calls>>

\* confirmRetry returns after closing the dialog: the flag is set, or no
\* message precedes the target
RetryAborted ==
  UNCHANGED <<now, storeVars, appVars, activeSessionIdRef,
              isLoading, pendingImages, retryPrompt, retrySettings,
              reads, calls>>

\* confirmRetry up to the call of editImageWithGemini (Regenerate)
ConfirmRetry ==
  /\ Step
  /\ EditorMounted /\ DialogOpen
  /\ retryTargetIndex' = nullIndex
  /\ IF isLoading \/ retryTargetIndex < 1
        \/ retryTargetIndex > Len(session.messages)
     THEN RetryAborted
     ELSE LET msgIndex    == retryTargetIndex
              messages    == session.messages
              inputs      == RetryInputs(messages, msgIndex)
              newMessages == SubSeq(messages, 1, msgIndex)
              revertedActiveImage ==
                IF Len(inputs) > 0 THEN Last(inputs) ELSE null
          IN  /\ \E ok \in Outcomes :
                   UpdateSession(Rewound(session, newMessages,
                                         revertedActiveImage), ok)
              /\ isLoading' = TRUE
              /\ calls' = Append(calls,
                   [kind |-> "retry",
                    currentSessionId |-> session.id,
                    session |-> session,
                    title |-> session.title,
                    messages |-> newMessages,
                    inputs |-> inputs,
                    prompt |-> RetryFullPrompt(messages[msgIndex],
                                               retryPrompt),
                    settings |-> retrySettings,
                    revertedActiveImage |-> revertedActiveImage,
                    failedText |-> RetryFailedText])
              /\ UNCHANGED <<now, dbOpen, legacy, currentSessionId,
                             isInitialized, activeSessionIdRef,
                             pendingImages, retryPrompt, retrySettings,
                             reads>>
  /\ Count

\* finally without clearing the loading flag
FinallyKeepsLoading(call) ==
  /\ isLoading' = isLoading
  /\ UNCHANGED <<now, dbOpen, legacy, currentSessionId, isInitialized,
                 activeSessionIdRef, pendingImages,
                 retryTargetIndex, retryPrompt, retrySettings, reads>>

\* finally without the comparison with the displayed session
FinallyEverywhere(call) ==
  /\ isLoading' = FALSE
  /\ UNCHANGED <<now, dbOpen, legacy, currentSessionId, isInitialized,
                 activeSessionIdRef, pendingImages,
                 retryTargetIndex, retryPrompt, retrySettings, reads>>

\* finally: the loading flag is cleared when the session that started the
\* call is the displayed one
Finally(call) ==
  /\ isLoading' = IF activeSessionIdRef = call.currentSessionId THEN FALSE
                  ELSE isLoading
  /\ UNCHANGED <<now, dbOpen, legacy, currentSessionId, isInitialized,
                 activeSessionIdRef, pendingImages,
                 retryTargetIndex, retryPrompt, retrySettings, reads>>

\* the model message of a result
ModelMessage(result, t) ==
  IF result.imageUrl # <<>>
  THEN [id |-> IdOf(t + 1), role |-> "model", images |-> result.imageUrl,
        timestamp |-> t]
  ELSE [id |-> IdOf(t + 1), role |-> "model",
        text |-> IF result.text # <<>> /\ result.text[1] # <<>>
                 THEN result.text[1] ELSE NoImageText,
        timestamp |-> t]

\* the session after a result, the returned image not made the active one
AfterResultKeepsActiveImage(call, result, t) ==
  LET base == [call.session EXCEPT
                 !.title = call.title,
                 !.messages = Append(call.messages, ModelMessage(result, t)),
                 !.lastModified = t]
  IN  IF call.kind = "retry"
      THEN [base EXCEPT !.activeImage = call.revertedActiveImage]
      ELSE base

\* the session after a result, the model message appended to the history
\* the handler started from
AfterResultOnOldHistory(call, result, t) ==
  LET base == [call.session EXCEPT
                 !.title = call.title,
                 !.messages = Append(call.session.messages,
                                     ModelMessage(result, t)),
                 !.lastModified = t]
  IN  IF result.imageUrl # <<>>
      THEN [base EXCEPT !.activeImage = FromResult(result.imageUrl[1])]
      ELSE IF call.kind = "retry"
      THEN [base EXCEPT !.activeImage = call.revertedActiveImage]
      ELSE base

\* the session a handler passes to onUpdateSession after the call returned
\* result: { ...session, title, messages, activeImage?, lastModified }
AfterResult(call, result, t) ==
  LET base == [call.session EXCEPT
                 !.title = call.title,
                 !.messages = Append(call.messages, ModelMessage(result, t)),
                 !.lastModified = t]
  IN  IF result.imageUrl # <<>>
      THEN [base EXCEPT !.activeImage = FromResult(result.imageUrl[1])]
      ELSE IF call.kind = "retry"
      THEN [base EXCEPT !.activeImage = call.revertedActiveImage]
      ELSE base

\* editImageWithGemini returns: the rest of the try block of
\* handleSendMessage or confirmRetry, then its finally block
CallReturns(c, response) ==
  /\ Step
  /\ c \in 1..Len(calls)
  /\ \E ok \in Outcomes :
       UpdateSession(AfterResult(calls[c], GenerationResult(response), now),
                     ok)
  /\ calls' = RemoveAt(calls, c)
  /\ Finally(calls[c])
  /\ Count

\* errorMsg
\* the message of a failed turn without the prefix and without the fallback
ErrorMessageUnprefixed(call, error, t) ==
  [id |-> IdOf(t), role |-> "model",
   text |-> IF error.isError THEN error.message ELSE <<>>,
   isError |-> TRUE, timestamp |-> t]

ErrorMessage(call, error, t) ==
  [id |-> IdOf(t), role |-> "model",
   text |-> IF error.isError THEN ErrorPrefix \o error.message
            ELSE call.failedText,
   isError |-> TRUE, timestamp |-> t]

\* the session a handler passes to onUpdateSession in its catch block
AfterError(call, error, t) ==
  [call.session EXCEPT
     !.title = call.title,
     !.messages = Append(call.messages, ErrorMessage(call, error, t)),
     !.lastModified = t]

\* editImageWithGemini throws: the catch block of handleSendMessage or
\* confirmRetry, then its finally block
CallThrows(c, error) ==
  /\ Step
  /\ c \in 1..Len(calls)
  /\ \E ok \in Outcomes :
       UpdateSession(AfterError(calls[c], error, now), ok)
  /\ calls' = RemoveAt(calls, c)
  /\ Finally(calls[c])
  /\ Count

-----------------------------------------------------------------------------
(* The system.                                                             *)

Init ==
  /\ now = 0
  /\ db \in StoredSets
  /\ dbOpen \in BOOLEAN
  /\ faults = 0
  /\ legacy \in LegacyBlobs
  /\ Startable(db, dbOpen, legacy)
  /\ sessions = <<>>
  /\ currentSessionId = nullId
  /\ isInitialized = FALSE
  /\ activeSessionIdRef = nullId
  /\ isLoading = FALSE
  /\ pendingImages = <<>>
  /\ retryTargetIndex = nullIndex
  /\ retryPrompt = <<>>
  /\ retrySettings = null
  /\ reads = <<>>
  /\ calls = <<>>
  /\ steps = 0

Next ==
  \/ InitializeApp
  \/ Tick
  \/ CreateNewSession
  \/ \E id \in Ids(sessions) : HandleDeleteSession(id)
  \/ \E id \in Ids(sessions) : HandleSelectSession(id)
  \/ \E files \in FileBatches : ProcessFiles(files)
  \/ \E b \in 1..Len(reads), i \in 1..2 : ReaderOnLoad(b, i)
  \/ \E index \in 1..Len(pendingImages) : HandleRemovePendingImage(index)
  \/ \E newSettings \in SettingsChanges : UpdateSettings(newSettings)
  \/ \E inputValue \in InputTexts : HandleSendMessage(inputValue)
  \/ \E msgIndex \in RetryButtons : InitiateRetry(msgIndex)
  \/ \E text \in RetryTexts : SetRetryPrompt(text)
  \/ \E newS \in SettingsChanges : SetRetrySettings(newS)
  \/ CancelRetry
  \/ ConfirmRetry
  \/ \E c \in 1..Len(calls), response \in Responses : CallReturns(c, response)
  \/ \E c \in 1..Len(calls), error \in Thrown : CallThrows(c, error)

Spec == Init /\ [][Next]_vars

-----------------------------------------------------------------------------
(* Vocabulary of the properties.                                           *)

IsPrefix(s, t) == Len(s) <= Len(t) /\ SubSeq(t, 1, Len(s)) = s

\* position of the first token of url that equals sep
FirstIndex(url, sep) ==
  CHOOSE k \in 1..Len(url) : url[k] = sep /\ \A j \in 1..(k - 1) : url[j] # sep

\* the part of a data URL after the comma
AfterComma(url) == SubSeq(url, FirstIndex(url, ",") + 1, Len(url))

\* the part of a data URL between "data:" and ";base64"
MimeOf(url) == SubSeq(url, FirstIndex(url, ":") + 1, FirstIndex(url, ";") - 1)

\* the ImageState a data URL stands for
ImageOf(url) ==
  [dataUrl |-> url, mimeType |-> MimeOf(url), base64Data |-> AfterComma(url)]

\* the message carries an image, in its images list or in its legacy field
Carries(m) ==
  \/ "images" \in DOMAIN m /\ m.images # <<>>
  \/ "image" \in DOMAIN m

\* the images a message carries, the legacy field as a one-element list
OwnImages(m) ==
  IF "images" \in DOMAIN m /\ m.images # <<>> THEN m.images
  ELSE IF "image" \in DOMAIN m THEN <<m.image>>
  ELSE <<>>

\* the image of the most recent message of msgs that carries any image, as a
\* list of at most one data URL
LatestImage(msgs) ==
  LET carriers == {k \in 1..Len(msgs) : Carries(msgs[k])}
  IN  IF carriers = {} THEN <<>>
      ELSE LET k == CHOOSE a \in carriers : \A b \in carriers : b <= a
           IN  <<Last(OwnImages(msgs[k]))>>

\* the step is a send that was accepted / a retry that was started
AcceptedSend == \E inputValue \in InputTexts :
                   HandleSendMessage(inputValue) /\ Len(calls') = Len(calls) + 1
AcceptedRetry == ConfirmRetry /\ Len(calls') = Len(calls) + 1

\* the step is the completion of call c without an image
NoImageCompletion(c) ==
  \/ \E response \in Responses :
        GenerationResult(response).imageUrl = <<>> /\ CallReturns(c, response)
  \/ \E error \in Thrown : CallThrows(c, error)

\* the sessions of the list ss that the call originated from
Origin(ss, call) == {i \in 1..Len(ss) : ss[i].id = call.currentSessionId}

-----------------------------------------------------------------------------
(* Session store.                                                          *)

DeletesOnlySession ==
  \E id \in Ids(sessions) :
     Without(sessions, id) = <<>> /\ HandleDeleteSession(id)

FreshSelected ==
  /\ Len(sessions) = 1
  /\ sessions[1].title = NewChat
  /\ sessions[1].messages = <<>>
  /\ sessions[1].activeImage = null
  /\ sessions[1].settings = DefaultSettings
  /\ currentSessionId = sessions[1].id

\* C1: once initialization has completed the session list is never empty,
\* whatever operations are performed; deleting the only remaining session
\* leaves exactly one fresh empty session, which is the selected one.
C1_AtLeastOneSession ==
  /\ [](isInitialized => Len(sessions) >= 1)
  /\ [][DeletesOnlySession => FreshSelected']_vars

\* the only session, created at the start, was deleted one tick later: the
\* list holds the replacement made at that time, and so does the store
C1_OnlySessionDeleted ==
  /\ isInitialized /\ FreshSelected
  /\ steps = 3 /\ now = 1 /\ faults = 0
  /\ sessions[1].id = IdOf(1)
  /\ DOMAIN db = {IdOf(1)}

-----------------------------------------------------------------------------
(* Outstanding calls.                                                      *)

\* the displayed session shows the turn of call c, which has not returned
ShowsTurnOf(c) ==
  /\ calls[c].currentSessionId = currentSessionId
  /\ IsPrefix(calls[c].messages, session.messages)

\* C2: at most one generation call per session is outstanding: no send and
\* no retry is started on a session while a call that originated from it has
\* not returned, also after the user has switched to another session and
\* back in the meantime.
C2_BusySessionRefuses ==
  [][AcceptedSend \/ AcceptedRetry =>
       \A c \in 1..Len(calls) : ~ShowsTurnOf(c)]_vars

\* C3: whatever completion (image, text only, failure) of whatever
\* outstanding call arrives, every message of every session stays in the
\* session's list at its position; a user message appended by an accepted
\* send is never rolled back.
C3_CompletionsOnlyAppend ==
  [][Len(calls') < Len(calls) =>
       \A i \in 1..Len(sessions) :
          IsPrefix(sessions[i].messages, sessions'[i].messages)]_vars

-----------------------------------------------------------------------------
(* The active image after a call.                                          *)

\* C4: after a send or a retry whose gateway result carries an image, the
\* session's activeImage is the decomposition of the returned image (its
\* URL, image/png, the part after the comma) and the appended model message
\* carries exactly that image and no text, also when the gateway returned
\* text as well and when pending images had been attached.
C4_ImageResultBecomesActive ==
  [][\A c \in 1..Len(calls), response \in Responses :
        LET result == GenerationResult(response)
        IN  CallReturns(c, response) /\ result.imageUrl # <<>> =>
              \A i \in Origin(sessions', calls[c]) :
                 LET url == result.imageUrl[1]
                     msg == Last(sessions'[i].messages)
                 IN  /\ sessions'[i].activeImage =
                          [dataUrl |-> url, mimeType |-> <<"image/png">>,
                           base64Data |-> AfterComma(url)]
                     /\ msg.role = "model"
                     /\ DOMAIN msg \cap {"images", "image", "text"} = {"images"}
                     /\ msg.images = <<url>>]_vars

\* the two attached images were sent and the model's image is the active one
C4_ImageReturnedAfterAttach ==
  \E i \in 1..Len(sessions) :
     LET msgs == sessions[i].messages
         n    == Len(msgs)
     IN  /\ n >= 2
         /\ msgs[n - 1].role = "user" /\ HasImages(msgs[n - 1])
         /\ Len(msgs[n - 1].images) = 2
         /\ msgs[n].role = "model" /\ HasImages(msgs[n])
         /\ msgs[n].images = <<DataUrl("image/png", <<"R">>)>>
         /\ sessions[i].activeImage.dataUrl = DataUrl("image/png", <<"R">>)

\* C5: after a send whose response carries no image (text only, or a
\* failure) the session's activeImage is the value it had immediately before
\* the response arrived, the one the update before the call stored.
C5_SendWithoutImageKeepsActiveImage ==
  [][\A c \in 1..Len(calls) :
        calls[c].kind = "send" /\ NoImageCompletion(c) =>
          \A i \in Origin(sessions, calls[c]) :
             sessions'[i].activeImage = sessions[i].activeImage]_vars

\* C6: after a retry whose response carries no image (text only, or a
\* failure) the session's activeImage is the rewound value: the last of the
\* retry's input images, or none.
C6_RetryWithoutImageKeepsRewound ==
  [][\A c \in 1..Len(calls) :
        calls[c].kind = "retry" /\ NoImageCompletion(c) =>
          \A i \in Origin(sessions', calls[c]) :
             sessions'[i].activeImage =
               IF calls[c].inputs # <<>> THEN Last(calls[c].inputs)
               ELSE null]_vars

-----------------------------------------------------------------------------
(* The image context of a call.                                            *)

\* C7: a send accepted with pending images hands the gateway all pending
\* images in their order, whatever activeImage and the history hold; the
\* update before the call makes the last pending image the active one and
\* the pending list is empty afterwards.
C7_PendingImagesAreSent ==
  [][AcceptedSend /\ Len(pendingImages) > 0 =>
       /\ Last(calls').inputs = pendingImages
       /\ \A i \in Origin(sessions', Last(calls')) :
             sessions'[i].activeImage = Last(pendingImages)
       /\ pendingImages' = <<>>]_vars

\* a call carries two attached images although its session had an active
\* image and a history with images
C7_TwoPendingSent ==
  \E c \in 1..Len(calls) :
     /\ calls[c].kind = "send"
     /\ Len(calls[c].inputs) = 2
     /\ calls[c].session.activeImage # null
     /\ calls[c].inputs[2] # calls[c].session.activeImage
     /\ \E k \in 1..Len(calls[c].session.messages) :
           Carries(calls[c].session.messages[k])
     /\ pendingImages = <<>>

\* C8: a send accepted with no pending images and activeImage = A hands the
\* gateway exactly [A], also when the history holds other images, and the
\* update before the call leaves activeImage equal to A.
C8_ActiveImageIsSent ==
  [][AcceptedSend /\ Len(pendingImages) = 0 /\ session.activeImage # null =>
       /\ Last(calls').inputs = <<session.activeImage>>
       /\ \A i \in Origin(sessions', Last(calls')) :
             sessions'[i].activeImage = session.activeImage]_vars

\* a call carries the active image of a session whose history holds an
\* older, different image
C8_ActiveSentDespiteHistory ==
  \E c \in 1..Len(calls) :
     /\ calls[c].kind = "send"
     /\ calls[c].session.activeImage # null
     /\ calls[c].inputs = <<calls[c].session.activeImage>>
     /\ \E k \in 1..Len(calls[c].session.messages) :
           /\ Carries(calls[c].session.messages[k])
           /\ Last(OwnImages(calls[c].session.messages[k])) #
                calls[c].session.activeImage.dataUrl

\* C9: a send accepted with no pending images and no activeImage hands the
\* gateway exactly the image of the most recent message that carries any
\* image (the last of its images list, else its legacy single image), which
\* becomes the provisional activeImage; when no message carries an image the
\* gateway gets no image and activeImage stays none.
C9_LatestHistoryImageIsSent ==
  [][AcceptedSend /\ Len(pendingImages) = 0 /\ session.activeImage = null =>
       LET found == LatestImage(session.messages)
       IN  IF found = <<>>
           THEN /\ Last(calls').inputs = <<>>
                /\ \A i \in Origin(sessions', Last(calls')) :
                      sessions'[i].activeImage = null
           ELSE /\ Last(calls').inputs = <<ImageOf(found[1])>>
                /\ \A i \in Origin(sessions', Last(calls')) :
                      sessions'[i].activeImage = ImageOf(found[1])]_vars

\* a call carries the legacy image of the last message of a session that
\* had no active image
C9_LegacyImageFound ==
  \E c \in 1..Len(calls) :
     /\ calls[c].kind = "send"
     /\ calls[c].session.activeImage = null
     /\ Len(calls[c].session.messages) = 2
     /\ "image" \in DOMAIN calls[c].session.messages[2]
     /\ calls[c].inputs = <<ImageOf(calls[c].session.messages[2].image)>>

\* C10: the input images of a retry are the images of the preceding user
\* message whenever it carries any, in its images list or in its legacy
\* single image field; only when it carries none are they the most recent
\* image of the strictly earlier messages.
C10_RetryUsesOwnImages ==
  [][AcceptedRetry =>
       LET userMsg  == session.messages[retryTargetIndex]
           earlier  == SubSeq(session.messages, 1, retryTargetIndex - 1)
           expected == IF Carries(userMsg) THEN OwnImages(userMsg)
                       ELSE LatestImage(earlier)
       IN  Last(calls').inputs =
             [k \in 1..Len(expected) |-> ImageOf(expected[k])]]_vars

-----------------------------------------------------------------------------
(* Retry.                                                                  *)

\* the step is the completion of call c
Completion(c) ==
  \/ \E response \in Responses : CallReturns(c, response)
  \/ \E error \in Thrown : CallThrows(c, error)

\* C11: a retry of the model message at index i that is started first sets
\* the session's messages to its first i messages and activeImage to the
\* last input image resolved for the retry (none when there is none); the
\* completion of the call appends exactly one model message to that
\* truncated list, so the list has i + 1 messages.
C11_RetryRewindsThenAppendsOne ==
  /\ [][AcceptedRetry =>
          \A i \in Origin(sessions', Last(calls')) :
             /\ sessions'[i].messages =
                  SubSeq(session.messages, 1, retryTargetIndex)
             /\ Last(calls').messages = sessions'[i].messages
             /\ sessions'[i].activeImage =
                  IF Last(calls').inputs = <<>> THEN null
                  ELSE Last(Last(calls').inputs)]_vars
  /\ [][\A c \in 1..Len(calls) :
          calls[c].kind = "retry" /\ Completion(c) =>
            \A i \in Origin(sessions', calls[c]) :
               LET new == sessions'[i].messages
               IN  /\ Len(new) = Len(calls[c].messages) + 1
                   /\ SubSeq(new, 1, Len(new) - 1) = calls[c].messages
                   /\ Last(new).role = "model"
                   /\ Last(new).timestamp = now]_vars

\* the stored session's answer was retried and the retry has completed: its
\* user message is followed by one model message made in this run
C11_RetryCompleted ==
  \E i \in 1..Len(sessions) :
     /\ sessions[i].id = StoredModern.id
     /\ Len(sessions[i].messages) = 2
     /\ sessions[i].messages[1] = StoredModern.messages[1]
     /\ sessions[i].messages[2].role = "model"
     /\ sessions[i].messages[2].timestamp >= 0

-----------------------------------------------------------------------------
(* Completions that arrive after a session switch.                         *)

\* C12: when a call of session S1 completes while another session S2 is
\* displayed, the completion writes the result into S1's record in the list
\* and (unless the store fails) into S1's stored record, changes no other
\* session's record, and leaves the loading flag shown for S2 as it is.
C12_StaleCompletionTouchesOnlyOrigin ==
  [][\A c \in 1..Len(calls) :
        Completion(c) /\ currentSessionId # calls[c].currentSessionId =>
          /\ \A i \in Origin(sessions, calls[c]) :
                /\ sessions'[i].messages # calls[c].messages
                /\ IsPrefix(calls[c].messages, sessions'[i].messages)
                /\ Last(sessions'[i].messages).role = "model"
                /\ Last(sessions'[i].messages).timestamp = now
                /\ dbOpen /\ faults' = faults =>
                     db'[calls[c].currentSessionId] = sessions'[i]
          /\ \A i \in 1..Len(sessions) \ Origin(sessions, calls[c]) :
                sessions'[i] = sessions[i]
          /\ \A k \in DOMAIN db \ {calls[c].currentSessionId} :
                k \in DOMAIN db' /\ db'[k] = db[k]
          /\ isLoading' = isLoading
          /\ currentSessionId' = currentSessionId]_vars

\* the stored session's call has completed one tick after the user switched
\* to the legacy session and sent there: the answer is in the first
\* session's record, the second one is still loading
C12_CompletedWhileOtherShown ==
  /\ steps = 6
  /\ currentSessionId = StoredLegacy.id
  /\ isLoading
  /\ Len(calls) = 1
  /\ calls[1].currentSessionId = StoredLegacy.id
  /\ Last(calls[1].messages).timestamp = 0
  /\ \E i \in 1..Len(sessions) :
        /\ sessions[i].id = StoredModern.id
        /\ Len(sessions[i].messages) = 4
        /\ Last(sessions[i].messages).role = "model"
        /\ Last(sessions[i].messages).timestamp = 1
        /\ db[StoredModern.id] = sessions[i]

-----------------------------------------------------------------------------
(* Title.                                                                  *)

\* the step is a send, a retry or the completion of a call
TurnStep ==
  AcceptedSend \/ AcceptedRetry \/ \E c \in 1..Len(calls) : Completion(c)

\* C13: only the first turn of a session sets its title: no send, retry or
\* completion changes the title of a session that already holds a message.
C13_TitleSetOnce ==
  [][TurnStep =>
       \A i \in 1..Len(sessions) :
          sessions[i].messages # <<>> =>
            sessions'[i].title = sessions[i].title]_vars

\* Texts around the title's length limit: 30 characters, 31 characters, and
\* 31 characters between blanks.
Text30 == [k \in 1..30 |-> "a"]
Text31 == Text30 \o <<"b">>
TitleTexts == {<<>>, Hi, Text30, Text31, <<" ">> \o Text31 \o <<" ">>}

\* The sends of the first turn with these texts: start, attach, send, and
\* the completion of the call.
TitleNext ==
  \/ InitializeApp
  \/ \E files \in FileBatches : ProcessFiles(files)
  \/ \E b \in 1..Len(reads), i \in 1..2 : ReaderOnLoad(b, i)
  \/ \E inputValue \in TitleTexts : HandleSendMessage(inputValue)
  \/ \E c \in 1..Len(calls), response \in Responses : CallReturns(c, response)
  \/ \E c \in 1..Len(calls), error \in Thrown : CallThrows(c, error)

TitleSpec == Init /\ [][TitleNext]_vars

\* C14: on a first turn with non-empty trimmed text t the title becomes t
\* when t has at most 30 characters, and the first 30 characters of t
\* followed by "..." when t is longer (at most 33 characters); on a first
\* turn with no text but attached images it becomes "Image Edit Session".
C14_TitleOfFirstTurn ==
  [][\A inputValue \in TitleTexts :
        /\ HandleSendMessage(inputValue)
        /\ Len(calls') = Len(calls) + 1
        /\ session.messages = <<>>
        => \A i \in Origin(sessions', Last(calls')) :
              LET t     == Last(sessions'[i].messages).text
                  title == sessions'[i].title
              IN  /\ t \in {<<>>, Hi, Text30, Text31}
                  /\ t # <<>> /\ Len(t) <= 30 => title = t
                  /\ t # <<>> /\ Len(t) > 30 =>
                       /\ title = SubSeq(t, 1, 30) \o <<".", ".", ".">>
                       /\ Len(title) = 33
                  /\ t = <<>> =>
                       /\ Len(pendingImages) > 0
                       /\ title = ImageEditSession]_vars

\* sessions titled by a first turn of 31 characters between blanks
C14_LongTitleCut ==
  \E i \in 1..Len(sessions) :
     /\ Len(sessions[i].messages) = 1
     /\ sessions[i].messages[1].text = Text31
     /\ sessions[i].title = Text30 \o Ellipsis
     /\ isLoading

-----------------------------------------------------------------------------
(* Rejected sends.                                                         *)

\* the text is empty or consists of blanks
Blank(text) == \A k \in 1..Len(text) : text[k] = " "

\* C15: a send attempted while the prompt is blank and no image is pending,
\* or while the loading flag is set, changes nothing: not the sessions
\* (messages, title, activeImage, lastModified), not the pending images, not
\* the loading flag, not the store, and no gateway call is started.
C15_RejectedSendIsNoOp ==
  [][\A inputValue \in InputTexts :
        /\ HandleSendMessage(inputValue)
        /\ (Blank(inputValue) /\ pendingImages = <<>>) \/ isLoading
        => UNCHANGED <<sessions, db, pendingImages, isLoading, calls>>]_vars

\* a call is outstanding, the flag is set and images are pending again: a
\* send pressed now is refused and leaves this state as it is
C15_SendRefusedWhileLoading ==
  /\ EditorMounted /\ ~DialogOpen
  /\ isLoading
  /\ pendingImages # <<>>
  /\ \E c \in 1..Len(calls) : calls[c].currentSessionId = currentSessionId
  /\ ENABLED (HandleSendMessage(Hi) /\ UNCHANGED vars)

-----------------------------------------------------------------------------
(* Gateway failures.                                                       *)

\* C16: when the gateway call of a send or of a retry fails, the originating
\* session shows the turn's messages followed by exactly one model message
\* flagged isError whose text is not empty ("Error: " and the failure's
\* message, or the handler's fallback), the handler finishes (its call is no
\* longer outstanding), and the loading flag is cleared when the originating
\* session is still the displayed one.
C16_FailureBecomesErrorMessage ==
  [][\A c \in 1..Len(calls) : \A error \in Thrown :
        CallThrows(c, error)
        => /\ \A i \in Origin(sessions, calls[c]) :
                /\ Len(sessions'[i].messages) = Len(calls[c].messages) + 1
                /\ SubSeq(sessions'[i].messages, 1, Len(calls[c].messages))
                     = calls[c].messages
                /\ LET m == Last(sessions'[i].messages)
                   IN  /\ m.role = "model"
                       /\ "isError" \in DOMAIN m /\ m.isError
                       /\ m.text # <<>>
                       /\ IF error.isError
                          THEN m.text = ErrorPrefix \o error.message
                          ELSE m.text \in {SendFailedText, RetryFailedText}
           /\ Len(calls') = Len(calls) - 1
           /\ activeSessionIdRef = calls[c].currentSessionId
              => ~isLoading']_vars

\* a send failed with something that is no Error: the displayed session ends
\* with the user's message and the fallback error message, nothing is loading
C16_SendFailedShown ==
  /\ EditorMounted
  /\ calls = <<>> /\ ~isLoading
  /\ Len(session.messages) >= 2
  /\ LET m == Last(session.messages)
     IN  /\ "isError" \in DOMAIN m /\ m.isError
         /\ m.text = SendFailedText
  /\ session.messages[Len(session.messages) - 1].role = "user"

-----------------------------------------------------------------------------
(* Startup.                                                                *)

\* the ids of the sessions in the store and in the legacy blob
PersistedIds ==
  DOMAIN db \cup
  (IF legacy.kind = "list"
   THEN {legacy.list[j].id : j \in 1..Len(legacy.list)} ELSE {})

\* C17: when initialization ends without a session from the store or from
\* the legacy blob (nothing stored, or the read, the migration or a write
\* failed), the list holds exactly one session, with no messages, no
\* activeImage and the default settings, that session is selected and the
\* application is initialized.
C17_OneDefaultSessionAfterStartup ==
  [][InitializeApp /\ (\A i \in 1..Len(sessions') :
                          sessions'[i].id \notin PersistedIds)
     => /\ Len(sessions') = 1
        /\ sessions'[1].messages = <<>>
        /\ sessions'[1].activeImage = null
        /\ sessions'[1].settings = DefaultSettings
        /\ currentSessionId' = sessions'[1].id
        /\ isInitialized']_vars

-----------------------------------------------------------------------------
(* Failed writes.                                                          *)

\* C18: a put or delete request that fails stays inside the storage service:
\* the step it fails in changes the session list and the selection exactly
\* as the same step does when the request succeeds (a new session is
\* prepended and selected, a deleted session is removed, a completed turn
\* is shown in its session, a start with nothing stored leaves the one
\* session it created), so nothing is rolled back and nothing else changes.
C18_FailedWriteIsSwallowed ==
  [][faults' > faults
     => /\ CreateNewSession
           => /\ sessions' = <<NewSession(now)>> \o sessions
              /\ currentSessionId' = IdOf(now)
        /\ \A sessionId \in Ids(sessions) :
             HandleDeleteSession(sessionId)
             => LET after == AfterDelete(sessions, currentSessionId,
                                         sessionId, now)
                IN  /\ sessions' = after.sessions
                    /\ currentSessionId' = after.currentSessionId
        /\ \A c \in 1..Len(calls) :
             Completion(c)
             => /\ \A i \in Origin(sessions, calls[c]) :
                     Len(sessions'[i].messages) = Len(calls[c].messages) + 1
                /\ currentSessionId' = currentSessionId
        /\ InitializeApp /\ DOMAIN db = {} /\ legacy.kind # "list"
           => /\ sessions' = <<NewSession(now)>>
              /\ currentSessionId' = IdOf(now)]_vars

-----------------------------------------------------------------------------
(* Migration of the legacy item, over restarts of the application.         *)

\* the localStorage item, also as JSON that parses to an empty array
MigrationBlobs == LegacyBlobs \cup {[kind |-> "empty"]}

\* A start after earlier runs: the legacy item stays in localStorage until a
\* migration succeeds, whatever the object store holds by then.
MigrationInit ==
  /\ now = 0
  /\ db \in StoredSets
  /\ dbOpen \in BOOLEAN
  /\ DOMAIN db # {} => dbOpen
  /\ faults = 0
  /\ legacy \in MigrationBlobs
  /\ sessions = <<>>
  /\ currentSessionId = nullId
  /\ isInitialized = FALSE
  /\ activeSessionIdRef = nullId
  /\ isLoading = FALSE
  /\ pendingImages = <<>>
  /\ retryTargetIndex = nullIndex
  /\ retryPrompt = <<>>
  /\ retrySettings = null
  /\ reads = <<>>
  /\ calls = <<>>
  /\ steps = 0

\* The page is loaded again: every useState of App and of ImageEditor starts
\* from its initial value, the object store and localStorage stay.
Reload ==
  /\ Step
  /\ isInitialized
  /\ sessions' = <<>>
  /\ currentSessionId' = nullId
  /\ isInitialized' = FALSE
  /\ activeSessionIdRef' = nullId
  /\ isLoading' = FALSE
  /\ pendingImages' = <<>>
  /\ retryTargetIndex' = nullIndex
  /\ retryPrompt' = <<>>
  /\ retrySettings' = null
  /\ reads' = <<>>
  /\ calls' = <<>>
  /\ UNCHANGED <<now, storeVars>>
  /\ Count

MigrationNext ==
  \/ InitializeApp
  \/ Reload
  \/ CreateNewSession
  \/ \E id \in Ids(sessions) : HandleDeleteSession(id)
  \/ Tick

MigrationSpec == MigrationInit /\ [][MigrationNext]_vars

\* the ids of the sessions in the legacy item
LegacyIds ==
  IF legacy.kind = "list"
  THEN {legacy.list[j].id : j \in 1..Len(legacy.list)} ELSE {}

\* C19: at startup the legacy item is migrated only when the read of the
\* object store returned no session.  When the store holds sessions the
\* item and the stored records are left alone.  When the store is empty and
\* the item is a non-empty list whose writes succeed, every entry is put
\* into the store, the item is removed and the entries are the loaded
\* sessions.  When the item is absent, not JSON, not a non-empty list, or
\* the store cannot be opened or a request fails, the item is left in place,
\* none of its entries is stored and none is loaded.
C19_MigrationOnlyFromEmptyStore ==
  [][InitializeApp
     => /\ DOMAIN db # {}
           => /\ legacy' = legacy
              /\ \A k \in DOMAIN db : k \in DOMAIN db' /\ db'[k] = db[k]
              /\ DOMAIN db' \subseteq DOMAIN db \cup {IdOf(now), IdOf(now')}
        /\ (DOMAIN db = {} /\ dbOpen /\ legacy.kind = "list"
            /\ faults' = faults)
           => /\ db' = putAll(db, legacy.list)
              /\ legacy' = [kind |-> "absent"]
              /\ Len(sessions') = Len(legacy.list)
              /\ Ids(sessions') = LegacyIds
        /\ (legacy.kind # "list" \/ ~dbOpen \/ faults' > faults)
           => /\ legacy' = legacy
              /\ \A k \in LegacyIds \ DOMAIN db : k \notin DOMAIN db'
              /\ DOMAIN db = {}
                 => \A i \in 1..Len(sessions') :
                       /\ sessions'[i].id \notin LegacyIds
                       /\ sessions'[i].messages = <<>>]_vars

\* the first start has migrated the legacy item: the store holds its entry,
\* the item is gone and the entry is the loaded, selected session
C19_LegacyMigrated ==
  /\ steps = 1
  /\ isInitialized
  /\ legacy.kind = "absent"
  /\ DOMAIN db = {StoredLegacy.id}
  /\ db[StoredLegacy.id] = StoredLegacy
  /\ Ids(sessions) = {StoredLegacy.id}
  /\ currentSessionId = StoredLegacy.id

-----------------------------------------------------------------------------
(* The parts of a gateway response.                                        *)

MaxParts == 2

\* "ok"
OkText == <<"o", "k">>

\* the parts a response is made of
Parts ==
  {[inlineData |-> [data |-> <<"R">>]], [inlineData |-> [data |-> <<"S">>]],
   [text |-> ReplyText], [text |-> OkText], [text |-> <<>>]}

\* response.candidates?.[0]?.content?.parts; a response without candidates,
\* content or parts is the empty sequence
PartLists == UNION {[1..n -> Parts] : n \in 0..MaxParts}

GatewayNext ==
  \/ InitializeApp
  \/ \E files \in FileBatches : ProcessFiles(files)
  \/ \E b \in 1..Len(reads), i \in 1..2 : ReaderOnLoad(b, i)
  \/ \E inputValue \in InputTexts : HandleSendMessage(inputValue)
  \/ \E c \in 1..Len(calls), response \in PartLists : CallReturns(c, response)
  \/ \E c \in 1..Len(calls), error \in Thrown : CallThrows(c, error)

GatewaySpec == Init /\ [][GatewayNext]_vars

\* the parts of a response that hold an image, and those that hold a text
InlineParts(response) ==
  {k \in 1..Len(response) : "inlineData" \in DOMAIN response[k]}
TextParts(response) ==
  {k \in 1..Len(response) :
     "text" \in DOMAIN response[k] /\ response[k].text # <<>>}

\* the least of a non-empty set of indices
First(S) == CHOOSE k \in S : \A j \in S : k <= j

\* C20: the result of a gateway call carries the image of the first inline
\* part of the response and the text of its first text part, whatever the
\* order and the number of the parts; a response without parts gives neither.
\* Seen in the model message of the turn: it shows the first inline part's
\* image as a PNG data URL when there is one, else the first text part, else
\* the fixed text for "no image".
C20_FirstPartsWin ==
  [][\A c \in 1..Len(calls) : \A response \in PartLists :
        CallReturns(c, response)
        => \A i \in Origin(sessions, calls[c]) :
             LET m == Last(sessions'[i].messages)
             IN  IF InlineParts(response) # {}
                 THEN /\ "images" \in DOMAIN m
                      /\ m.images =
                           << DataUrl("image/png",
                                response[First(InlineParts(response))]
                                  .inlineData.data) >>
                 ELSE /\ "images" \notin DOMAIN m
                      /\ m.text =
                           IF TextParts(response) # {}
                           THEN response[First(TextParts(response))].text
                           ELSE NoImageText]_vars

-----------------------------------------------------------------------------
(* Deleting sessions of a longer list.                                     *)

\* a session older than StoredModern whose only message was never answered
StoredOld ==
  [id |-> IdOf(-7), title |-> Yo,
   messages |-> << [id |-> IdOf(-7), role |-> "user", text |-> Yo,
                    timestamp |-> -7] >>,
   activeImage |-> null, lastModified |-> -7, settings |-> DefaultSettings]

\* the object store of a user with three sessions
StoredThree == StoreOf(<<StoredModern, StoredOld, StoredPending>>)

\* an id no session has
GoneId == IdOf(-1)

DeleteInit ==
  /\ now = 0
  /\ db \in StoredSets \cup {StoredThree}
  /\ dbOpen = TRUE
  /\ faults = 0
  /\ legacy = [kind |-> "absent"]
  /\ sessions = <<>>
  /\ currentSessionId = nullId
  /\ isInitialized = FALSE
  /\ activeSessionIdRef = nullId
  /\ isLoading = FALSE
  /\ pendingImages = <<>>
  /\ retryTargetIndex = nullIndex
  /\ retryPrompt = <<>>
  /\ retrySettings = null
  /\ reads = <<>>
  /\ calls = <<>>
  /\ steps = 0

DeleteNext ==
  \/ InitializeApp
  \/ Tick
  \/ \E id \in Ids(sessions) \cup {GoneId} : HandleDeleteSession(id)
  \/ \E id \in Ids(sessions) : HandleSelectSession(id)
  \/ \E inputValue \in InputTexts : HandleSendMessage(inputValue)
  \/ \E c \in 1..Len(calls), response \in Responses : CallReturns(c, response)
  \/ \E c \in 1..Len(calls), error \in Thrown : CallThrows(c, error)

DeleteSpec == DeleteInit /\ [][DeleteNext]_vars

\* the sessions of the list without those of the given id, in list order
Remaining(id) == SelectSeq(sessions, LAMBDA s : s.id # id)

\* C21: deleting a session removes it from the list and deletes its record
\* from the store; when sessions remain and the deleted one was selected,
\* the first session of the remaining list becomes selected, whether or not
\* it is the most recently modified one; when the deleted session was not
\* selected, or no session has the id, the selection stays.
C21_DeleteSelectsFirstRemaining ==
  [][\A id \in Ids(sessions) \cup {GoneId} :
        HandleDeleteSession(id)
        => /\ Remaining(id) # <<>> => sessions' = Remaining(id)
           /\ faults' = faults => id \notin DOMAIN db'
           /\ (Remaining(id) # <<>> /\ currentSessionId = id)
              => currentSessionId' = Remaining(id)[1].id
           /\ currentSessionId # id
              => currentSessionId' = currentSessionId]_vars

\* the newest of three sessions was deleted while it was selected and after
\* the oldest one had got a new turn: the selected session is the first of
\* the two that remain, which is not the one modified last
C21_FirstRemainingIsNotNewest ==
  /\ steps = 5
  /\ Len(sessions) = 2
  /\ StoredPending.id \notin DOMAIN db
  /\ sessions[1].id = StoredModern.id /\ sessions[2].id = StoredOld.id
  /\ currentSessionId = sessions[1].id
  /\ sessions[2].lastModified > sessions[1].lastModified

-----------------------------------------------------------------------------
(* Settings of a retry.                                                    *)

\* C22: a confirmed retry calls the gateway with the settings of the retry
\* dialog, edited or not, and the session keeps the settings it had when
\* the retry was confirmed: after the rewind before the call, and after the
\* call's result with an image, its result without one and its failure.
C22_RetrySettingsStayInDialog ==
  /\ [][AcceptedRetry
        => /\ Last(calls').settings = retrySettings
           /\ \A i \in 1..Len(sessions) :
                sessions[i].id = currentSessionId
                => sessions'[i].settings = session.settings]_vars
  /\ [][\A c \in 1..Len(calls) :
          (Completion(c) /\ calls[c].kind = "retry")
          => \A i \in Origin(sessions, calls[c]) :
               sessions'[i].settings = calls[c].session.settings]_vars

\* a retry confirmed with the full-body switch set in the dialog only: the
\* call is outstanding with that setting, the session's settings lack it
C22_RetryWithEditedSettings ==
  /\ EditorMounted /\ isLoading
  /\ \E c \in 1..Len(calls) :
       /\ calls[c].kind = "retry"
       /\ calls[c].currentSessionId = currentSessionId
       /\ calls[c].settings.isFullBody
       /\ ~session.settings.isFullBody
       /\ session.messages = calls[c].messages

-----------------------------------------------------------------------------
(* What a start loads.                                                     *)

\* a session stored without a settings object, changed long after it was
\* created
StoredBare ==
  [id |-> IdOf(-6), title |-> Yo,
   messages |-> << [id |-> IdOf(-6), role |-> "user", text |-> Yo,
                    timestamp |-> -6],
                   [id |-> IdOf(-1), role |-> "model", text |-> Hi,
                    timestamp |-> -2] >>,
   activeImage |-> null, lastModified |-> -2]

\* object stores whose key order is not the order of lastModified
StartStores ==
  {StoreOf(<<>>), StoreOf(<<StoredModern, StoredBare>>),
   StoreOf(<<StoredModern, StoredLegacy, StoredBare>>)}

\* legacy items: none, or a list that is not sorted
StartBlobs ==
  {[kind |-> "absent"], [kind |-> "list", list |-> <<StoredLegacy, StoredBare>>]}

StartInit ==
  /\ now = 0
  /\ db \in StartStores
  /\ dbOpen \in BOOLEAN
  /\ DOMAIN db # {} => dbOpen
  /\ faults = 0
  /\ legacy \in StartBlobs
  /\ sessions = <<>>
  /\ currentSessionId = nullId
  /\ isInitialized = FALSE
  /\ activeSessionIdRef = nullId
  /\ isLoading = FALSE
  /\ pendingImages = <<>>
  /\ retryTargetIndex = nullIndex
  /\ retryPrompt = <<>>
  /\ retrySettings = null
  /\ reads = <<>>
  /\ calls = <<>>
  /\ steps = 0

StartNext ==
  \/ InitializeApp
  \/ Reload
  \/ Tick
  \/ \E id \in Ids(sessions) : HandleSelectSession(id)
  \/ \E newSettings \in SettingsChanges : UpdateSettings(newSettings)

StartSpec == StartInit /\ [][StartNext]_vars

\* the persisted record a loaded session comes from: the store's when the
\* store holds records, else the legacy item's
SourceOf(id) ==
  IF id \in DOMAIN db THEN db[id]
  ELSE legacy.list[CHOOSE j \in 1..Len(legacy.list) : legacy.list[j].id = id]

\* C23: every session a start loads from the store or migrates from the
\* legacy item has all four settings: a field the stored settings hold keeps
\* its stored value, any other field has its default ("1.0", "None", "1:1",
\* false); a record without a settings object is loaded like the others.
C23_LoadedSettingsAreComplete ==
  [][(/\ InitializeApp
      /\ faults' = faults
      /\ DOMAIN db # {} \/ (dbOpen /\ legacy.kind = "list"))
     => /\ Ids(sessions') = IF DOMAIN db # {} THEN DOMAIN db ELSE LegacyIds
        /\ \A i \in 1..Len(sessions') :
             LET s   == sessions'[i]
                 src == SourceOf(s.id)
             IN  /\ DOMAIN s.settings = SettingsFields
                 /\ \A f \in SettingsFields :
                      s.settings[f] =
                        IF "settings" \in DOMAIN src
                           /\ f \in DOMAIN src.settings
                        THEN src.settings[f] ELSE DefaultSettings[f]]_vars

\* a start has loaded a record without settings and one with partial
\* settings: the first shows the defaults, the second its stored style
C23_HydratedOnLoad ==
  /\ steps = 1 /\ isInitialized
  /\ \E i, j \in 1..Len(sessions) :
       /\ sessions[i].id = StoredBare.id
       /\ sessions[i].settings = DefaultSettings
       /\ sessions[j].id = StoredLegacy.id
       /\ sessions[j].settings = [DefaultSettings EXCEPT !.style = "Anime"]

\* C24: after a start that loaded or migrated sessions the list is ordered
\* by lastModified, newest first, and the selected session is one with the
\* greatest lastModified.
C24_LoadedNewestFirst ==
  [][(InitializeApp /\ \E i \in 1..Len(sessions') :
                          sessions'[i].id \in PersistedIds)
     => /\ \A i, j \in 1..Len(sessions') :
             i < j => sessions'[i].lastModified >= sessions'[j].lastModified
        /\ \E i \in 1..Len(sessions') :
             /\ sessions'[i].id = currentSessionId'
             /\ \A j \in 1..Len(sessions') :
                  sessions'[j].lastModified <= sessions'[i].lastModified]_vars

\* the store returned StoredModern before StoredBare, which was modified
\* later: StoredBare is listed first and is the selected session
C24_NewestStoredSelected ==
  /\ steps = 1 /\ isInitialized
  /\ Len(sessions) >= 2
  /\ getAll(db)[1].id = StoredModern.id
  /\ sessions[1].id = StoredBare.id /\ sessions[2].id = StoredModern.id
  /\ currentSessionId = StoredBare.id

-----------------------------------------------------------------------------
(* lastModified.                                                           *)

\* C25: every step that changes a session of the list (an accepted send, a
\* completion of a send or of a retry, the rewind of a retry, a change of
\* the settings) leaves it with a lastModified that is not older than the
\* time of the step.
C25_MutationsRefreshLastModified ==
  [][\A i \in 1..Len(sessions) :
        (/\ Len(sessions') = Len(sessions)
         /\ sessions'[i].id = sessions[i].id
         /\ sessions'[i] # sessions[i])
        => sessions'[i].lastModified >= now]_vars

-----------------------------------------------------------------------------
(* The content of messages.                                                *)

\* the messages the sessions of the list ss hold
MessagesOf(ss) ==
  UNION {{ss[i].messages[k] : k \in 1..Len(ss[i].messages)} :
           i \in 1..Len(ss)}

\* C26: every message a handler adds to a session (the user's message, the
\* model's image message, its text message, the error message) has a
\* non-empty text or at least one image.
C26_MessagesHaveContent ==
  [][isInitialized
     => \A m \in MessagesOf(sessions') \ MessagesOf(sessions) :
           \/ "text" \in DOMAIN m /\ m.text # <<>>
           \/ "images" \in DOMAIN m /\ Len(m.images) >= 1]_vars

\* an image sent without any text was answered without an image: the user's
\* message holds only the image, the model's message the fixed text
C26_ImageOnlyTurnAnswered ==
  /\ EditorMounted
  /\ Len(session.messages) >= 2
  /\ LET u == session.messages[Len(session.messages) - 1]
         m == Last(session.messages)
     IN  /\ u.role = "user" /\ u.text = <<>>
         /\ "images" \in DOMAIN u /\ Len(u.images) >= 1
         /\ u.timestamp >= 0
         /\ m.role = "model" /\ "images" \notin DOMAIN m
         /\ m.text = NoImageText

-----------------------------------------------------------------------------
(* The optimistic update.                                                  *)

\* C27: when the gateway call of an accepted send or of a confirmed retry
\* starts, the session already shows the optimistic update (the user's
\* message appended, respectively the history cut back, and the resolved
\* activeImage), the update has been written to the store, and the loading
\* flag is set.
C27_UpdateBeforeCall ==
  [][(AcceptedSend \/ AcceptedRetry)
     => LET call == Last(calls')
        IN  /\ isLoading'
            /\ Origin(sessions', call) # {}
            /\ \A i \in Origin(sessions', call) :
                 /\ sessions'[i].messages = call.messages
                 /\ sessions'[i].activeImage =
                      IF call.inputs = <<>> THEN null ELSE Last(call.inputs)
                 /\ (dbOpen /\ faults' = faults)
                    => /\ call.currentSessionId \in DOMAIN db'
                       /\ db'[call.currentSessionId] = sessions'[i]
            /\ call.kind = "send"
               => /\ Len(call.messages) = Len(session.messages) + 1
                  /\ Last(call.messages).role = "user"
            /\ call.kind = "retry"
               => call.messages = SubSeq(session.messages, 1,
                                         retryTargetIndex)]_vars

\* a send with an attached image has just been accepted: its call is
\* outstanding, the session shows the user's message with the image as the
\* activeImage, the store holds that session, and the flag is set
C27_CallStartedAfterUpdate ==
  /\ EditorMounted /\ isLoading
  /\ Len(calls) = 1
  /\ calls[1].kind = "send" /\ calls[1].currentSessionId = currentSessionId
  /\ Len(calls[1].inputs) >= 1
  /\ session.messages = calls[1].messages
  /\ session.activeImage = Last(calls[1].inputs)
  /\ session.activeImage # calls[1].session.activeImage
  /\ currentSessionId \in DOMAIN db /\ db[currentSessionId] = session

-----------------------------------------------------------------------------
(* From sending back to idle.                                              *)

\* C28: when the gateway call of a generation returns, with a result or
\* with a failure, while the session it started from is displayed, that
\* session is idle again: it shows the turn's messages and one model
\* message after them, and the loading flag is cleared.  The flag is set
\* only while a call of the displayed session has not returned.
C28_ReturnedCallEndsLoading ==
  /\ [](isLoading => \E c \in 1..Len(calls) :
                        calls[c].currentSessionId = activeSessionIdRef)
  /\ [][\A c \in 1..Len(calls) :
          (Completion(c) /\ activeSessionIdRef = calls[c].currentSessionId)
          => /\ ~isLoading'
             /\ \A i \in Origin(sessions, calls[c]) :
                  /\ Len(sessions'[i].messages) = Len(calls[c].messages) + 1
                  /\ Last(sessions'[i].messages).role = "model"
                  /\ \A k \in 1..Len(calls[c].messages) :
                       sessions'[i].messages[k] = calls[c].messages[k]]_vars

\* the first send of a run was answered while its session stayed displayed:
\* the session ends with the user's message and the model's, nothing is
\* outstanding and the flag is cleared
C28_IdleAfterAnswer ==
  /\ steps = 3
  /\ EditorMounted /\ ~isLoading /\ calls = <<>>
  /\ Len(session.messages) >= 2
  /\ Last(session.messages).role = "model"
  /\ Last(session.messages).timestamp >= 0
  /\ session.messages[Len(session.messages) - 1].role = "user"
  /\ session.messages[Len(session.messages) - 1].timestamp >= 0

-----------------------------------------------------------------------------
(* Attaching files.                                                        *)

MaxBatches == 2

\* a file that is no image
FileT == [type |-> "text/plain", payload |-> <<"T">>]

\* what one file dialog or one paste delivers
AttachBatches == {<<FileE, FileD>>, <<FileD>>, <<FileT, FileE>>}

AttachNext ==
  \/ InitializeApp
  \/ \E files \in AttachBatches : Len(reads) < MaxBatches /\ StartReads(files)
  \/ \E b \in 1..Len(reads), i \in 1..2 : ReaderOnLoad(b, i)
  \/ \E index \in 1..Len(pendingImages) : HandleRemovePendingImage(index)

AttachSpec == Init /\ [][AttachNext]_vars

\* the data URLs of the image files of a batch
UrlsOf(batch) ==
  {DataUrl(batch.files[i].type, batch.files[i].payload) :
     i \in ImageFiles(batch.files)}

\* C29: the pending list grows only by whole batches: a step that adds to
\* it is the last read of one batch, and it adds every image of that batch
\* at the end of the list; a read that is not the last of its batch leaves
\* the list as it is, whatever other batches are being read.
C29_PendingGrowsByBatches ==
  /\ [][Len(pendingImages') > Len(pendingImages)
        => \E b \in 1..Len(reads) :
             LET n == Cardinality(ImageFiles(reads[b].files))
             IN  /\ Cardinality(reads[b].loaded) = n - 1
                 /\ reads' = RemoveAt(reads, b)
                 /\ Len(pendingImages') = Len(pendingImages) + n
                 /\ SubSeq(pendingImages', 1, Len(pendingImages))
                      = pendingImages
                 /\ {pendingImages'[k].dataUrl :
                       k \in (Len(pendingImages) + 1)..Len(pendingImages')}
                      = UrlsOf(reads[b])]_vars
  /\ [][\A b \in 1..Len(reads) : \A i \in 1..2 :
          (ReaderOnLoad(b, i)
           /\ Cardinality(reads[b].loaded)
                < Cardinality(ImageFiles(reads[b].files)) - 1)
          => pendingImages' = pendingImages]_vars

\* of two batches being read at the same time the one with a single image
\* has finished: its image is pending, while the other batch has one of its
\* two files read and shows nothing
C29_BatchShownWhileOtherHalfRead ==
  /\ Len(pendingImages) = 1
  /\ Len(reads) = 1
  /\ Cardinality(ImageFiles(reads[1].files)) = 2
  /\ Cardinality(reads[1].loaded) = 1
  /\ Len(reads[1].newImages) = 1
  /\ pendingImages[1].dataUrl \in UrlsOf([files |-> <<FileD>>])
  /\ steps = 5

-----------------------------------------------------------------------------
(* Retries that abort.                                                     *)

\* "Welcome"
Welcome == <<"W", "e", "l", "c", "o", "m", "e">>

\* a session that begins with a message of the model
StoredWelcome ==
  [id |-> IdOf(-7), title |-> NewChat,
   messages |-> << [id |-> IdOf(-7), role |-> "model", text |-> Welcome,
                    timestamp |-> -7] >>,
   activeImage |-> FromResult(ImgY), lastModified |-> -7,
   settings |-> DefaultSettings]

RetryInit ==
  /\ now = 0
  /\ db \in {StoreOf(<<StoredWelcome>>), StoreOf(<<StoredWelcome, StoredModern>>)}
  /\ dbOpen = TRUE
  /\ faults = 0
  /\ legacy = [kind |-> "absent"]
  /\ sessions = <<>>
  /\ currentSessionId = nullId
  /\ isInitialized = FALSE
  /\ activeSessionIdRef = nullId
  /\ isLoading = FALSE
  /\ pendingImages = <<>>
  /\ retryTargetIndex = nullIndex
  /\ retryPrompt = <<>>
  /\ retrySettings = null
  /\ reads = <<>>
  /\ calls = <<>>
  /\ steps = 0

RetryNext ==
  \/ InitializeApp
  \/ Tick
  \/ \E id \in Ids(sessions) : HandleSelectSession(id)
  \/ \E msgIndex \in RetryButtons : InitiateRetry(msgIndex)
  \/ \E text \in RetryTexts : SetRetryPrompt(text)
  \/ \E newS \in SettingsChanges : SetRetrySettings(newS)
  \/ CancelRetry
  \/ ConfirmRetry
  \/ \E c \in 1..Len(calls), response \in Responses : CallReturns(c, response)
  \/ \E c \in 1..Len(calls), error \in Thrown : CallThrows(c, error)

RetrySpec == RetryInit /\ [][RetryNext]_vars

-----------------------------------------------------------------------------
(* The request of the generation gateway (services/geminiService.ts).      *)

\* "You are an expert image editing AI. ..." and "You are an expert image
\* generation AI. ..."
EditingInstruction == "editingInstruction"
GenerationInstruction == "generationInstruction"

\* the sentences appended to the prompt, the style's name being a token
EditStyleWording(style) ==
  <<" Change the art style to ", style, ". CRITICAL: ... Only apply the ",
    style, " aesthetic texture and lighting.">>
SimpleStyleWording(style) == <<" Create the image in ", style, " style.">>
FullBodyWording ==
  <<" Ensure the full body of the subject is visible and not cropped.">>

\* a value that is truthy in JavaScript: not undefined and not ""
Truthy(v) == v # undefined /\ v # <<>>

\* parts: one inlineData part per input that has its data and its type
RECURSIVE InputParts(_)
InputParts(inputs) ==
  IF inputs = <<>> THEN <<>>
  ELSE LET img == Head(inputs)
       IN  (IF Truthy(img.base64Data) /\ Truthy(img.mimeType)
            THEN << [inlineData |-> [data |-> img.base64Data,
                                     mimeType |-> img.mimeType]] >>
            ELSE <<>>) \o InputParts(Tail(inputs))

\* what editImageWithGemini passes to ai.models.generateContent
Request(inputs, prompt, settings) ==
  LET isEditing   == Len(inputs) > 0
      styled      == IF settings.style # "None"
                     THEN prompt \o (IF isEditing
                                     THEN EditStyleWording(settings.style)
                                     ELSE SimpleStyleWording(settings.style))
                     ELSE prompt
      finalPrompt == IF settings.isFullBody THEN styled \o FullBodyWording
                     ELSE styled
  IN  [parts |-> InputParts(inputs) \o << [text |-> finalPrompt] >>,
       systemInstruction |-> IF isEditing THEN EditingInstruction
                             ELSE GenerationInstruction,
       temperature |-> settings.temperature,
       aspectRatio |-> settings.aspectRatio]

\* an image file without content
FileZ == [type |-> "image/png", payload |-> <<>>]

RequestBatches == {<<FileZ>>, <<FileD>>, <<FileZ, FileE>>}

RequestNext ==
  \/ InitializeApp
  \/ \E files \in RequestBatches : ProcessFiles(files)
  \/ \E b \in 1..Len(reads), i \in 1..2 : ReaderOnLoad(b, i)
  \/ \E newSettings \in SettingsChanges : UpdateSettings(newSettings)
  \/ \E inputValue \in InputTexts : HandleSendMessage(inputValue)
  \/ \E c \in 1..Len(calls), response \in Responses : CallReturns(c, response)
  \/ \E c \in 1..Len(calls), error \in Thrown : CallThrows(c, error)

RequestSpec == Init /\ [][RequestNext]_vars

\* the request of an outstanding call
RequestOf(call) == Request(call.inputs, call.prompt, call.settings)

\* the text part of a request ends with the given wording
EndsWith(text, wording) ==
  /\ Len(text) >= Len(wording)
  /\ SubSeq(text, Len(text) - Len(wording) + 1, Len(text)) = wording

\* C31: the request of every call has the editing system instruction and
\* the edit-mode style wording exactly when it holds at least one image
\* part, and the generation instruction and the simpler style wording
\* exactly when it holds none; an input without data or without type gives
\* no image part and does not make the request an editing request.
C31_EditingIffImageInRequest ==
  \A c \in 1..Len(calls) :
     LET r        == RequestOf(calls[c])
         hasImage == InlineParts(r.parts) # {}
         style    == calls[c].settings.style
         text     == Last(r.parts).text
         body     == IF calls[c].settings.isFullBody
                     THEN SubSeq(text, 1, Len(text) - Len(FullBodyWording))
                     ELSE text
     IN  /\ r.systemInstruction = IF hasImage THEN EditingInstruction
                                  ELSE GenerationInstruction
         /\ style # "None"
            => EndsWith(body, IF hasImage THEN EditStyleWording(style)
                              ELSE SimpleStyleWording(style))

-----------------------------------------------------------------------------
(* Message ids.                                                            *)

\* C32: no two messages of one session have the same id, whatever sends,
\* retries and completions have happened, also when a call returns at the
\* time of the send that started it.
C32_MessageIdsUnique ==
  \A i \in 1..Len(sessions) :
     \A k, l \in 1..Len(sessions[i].messages) :
        k # l => sessions[i].messages[k].id # sessions[i].messages[l].id

-----------------------------------------------------------------------------
(* The active image and the history.                                       *)

\* C33: the activeImage of a session, when it is set, is an image that a
\* message of that session's history carries, after every send, retry,
\* rewind and completion.
C33_ActiveImageIsInHistory ==
  \A i \in 1..Len(sessions) :
     sessions[i].activeImage # null
     => \E k \in 1..Len(sessions[i].messages) :
           \E j \in 1..Len(OwnImages(sessions[i].messages[k])) :
              OwnImages(sessions[i].messages[k])[j]
                = sessions[i].activeImage.dataUrl

-----------------------------------------------------------------------------
(* Deleted sessions and late completions.                                  *)

\* C34: a session that has been deleted and whose record is gone from the
\* store stays out of the store: when a generation that was started in it
\* completes after the deletion and no write fails, the store still holds
\* no record with that session's id.
C34_DeletedSessionStaysDeleted ==
  [][\A c \in 1..Len(calls) :
        /\ Completion(c)
        /\ Origin(sessions, calls[c]) = {}
        /\ calls[c].currentSessionId \notin DOMAIN db
        /\ faults' = faults
        => calls[c].currentSessionId \notin DOMAIN db']_vars

-----------------------------------------------------------------------------
(* Settings changed while a generation is outstanding.                     *)

\* C35: when the settings of a session were changed after a generation of
\* that session started, the completion of the generation (image, text-only
\* or failure) keeps the changed settings of the session.
C35_CompletionKeepsChangedSettings ==
  [][\A c \in 1..Len(calls) :
        Completion(c)
        => \A i \in Origin(sessions, calls[c]) :
              sessions[i].settings # calls[c].session.settings
              => sessions'[i].settings = sessions[i].settings]_vars

-----------------------------------------------------------------------------
(* Attachments and session switches.                                       *)

\* Files are attached only while the stored session StoredModern is the
\* displayed one; the sessions can be switched while they are being read.
SwitchNext ==
  \/ InitializeApp
  \/ CreateNewSession
  \/ \E id \in Ids(sessions) : HandleSelectSession(id)
  \/ \E files \in FileBatches :
       currentSessionId = StoredModern.id /\ ProcessFiles(files)
  \/ \E b \in 1..Len(reads), i \in 1..2 : ReaderOnLoad(b, i)
  \/ \E inputValue \in InputTexts : HandleSendMessage(inputValue)
  \/ \E c \in 1..Len(calls), response \in Responses : CallReturns(c, response)

SwitchSpec == Init /\ [][SwitchNext]_vars

\* the data URLs of the files of the batches
AttachedUrls ==
  {DataUrl(files[i].type, files[i].payload) :
     files \in FileBatches, i \in 1..2}

\* C36: images attached while one session is displayed are never pending
\* images of another session and are never sent with a turn of another
\* session, also when the session is switched before the reads finish.
C36_BatchStaysInItsSession ==
  /\ currentSessionId # StoredModern.id
     => \A k \in 1..Len(pendingImages) :
           pendingImages[k].dataUrl \notin AttachedUrls
  /\ \A i \in 1..Len(sessions) :
        sessions[i].id # StoredModern.id
        => \A k \in 1..Len(sessions[i].messages) :
              \A j \in 1..Len(OwnImages(sessions[i].messages[k])) :
                 OwnImages(sessions[i].messages[k])[j] \notin AttachedUrls

-----------------------------------------------------------------------------
(* The loading flag.                                                       *)

\* C37: whenever the loading flag is set, a session is displayed and a
\* generation call that was started from that session has not returned yet.
C37_LoadingHasOutstandingCall ==
  isLoading
  => /\ EditorMounted
     /\ \E c \in 1..Len(calls) : calls[c].session.id = currentSessionId

\* the displayed session is loading while a call of another session, left
\* behind by a session switch, is outstanding as well
C37_LoadingBesideForeignCall ==
  /\ isLoading
  /\ \E c \in 1..Len(calls) : calls[c].session.id # currentSessionId
  /\ \E c \in 1..Len(calls) : calls[c].session.id = currentSessionId

-----------------------------------------------------------------------------
(* The selection.                                                          *)

\* C38: once initializeApp has finished, the selected-session id is the id
\* of a session of the in-memory list, whatever sessions are created,
\* deleted, updated or selected and whatever generations complete.
C38_SelectionIsListed ==
  isInitialized => currentSessionId \in Ids(sessions)

\* of the two stored sessions one has been deleted, from the list and from
\* the store, and the remaining one is the selected session
C38_SelectionListedAfterDelete ==
  /\ isInitialized
  /\ faults = 0
  /\ DOMAIN db = {StoredModern.id}
  /\ Ids(sessions) = {StoredModern.id}
  /\ currentSessionId = StoredModern.id

====
